---- MODULE Spec2Model ----
(***************************************************************************)
(* A model of the lens library: paths (path.rs), the Lens / RefLens /      *)
(* ValueLens implementations for generated field lenses, VecLens and       *)
(* ComposedLens (lens.rs, lens-derive), the free functions modify and      *)
(* mutate_with_fn, and the lens transforms (lens_tx.rs).                   *)
(*                                                                         *)
(* A structure is a value tree: a struct is a record of its fields, a Vec  *)
(* is a sequence.  A Rust reference into a structure is modelled as the    *)
(* place it points to: the sequence of hops (field name or element index)  *)
(* from the root of the owned structure.  A call either returns ("ok") or  *)
(* panics ("panic").                                                       *)
(***************************************************************************)
EXTENDS Integers, Sequences, FiniteSets, TLC

VARIABLES
    ty,               \* the type of the structure the caller owns
    src,              \* the structure the caller owns (after the last call)
    pre,              \* the structure as it was before the last call
    op,               \* the last call: its name, lens chain and argument
    out,              \* the outcome of the last call
    steps,            \* number of calls made so far
    overflow_checks,  \* build profile: TRUE = debug (overflow panics), FALSE = release (wraps)
    pin,              \* the paths handed to the last LensPath call
    pout              \* the result of the last LensPath call

vars == <<ty, src, pre, op, out, steps, overflow_checks, pin, pout>>

(***************************************************************************)
(* Bounds of the model.                                                    *)
(***************************************************************************)
MaxVecLen == 2      \* vectors hold 0..MaxVecLen elements
MaxIndex == 2       \* vec_lens(i) is built for i in 0..MaxIndex
MaxDepth == 3       \* lens chains compose at most MaxDepth leaf lenses
MaxSteps == 1       \* calls per run
MaxPathLen == 2     \* enumerated paths have at most MaxPathLen elements

(***************************************************************************)
(* Outcomes of a call.                                                     *)
(***************************************************************************)
PanicUnwrapNone == "called Option::unwrap on a None value"
PanicIndex == "index out of bounds"
PanicOverflow == "arithmetic operation overflowed"

OkRef(place) == [kind |-> "ok", ref |-> place]
OkMem(mem) == [kind |-> "ok", mem |-> mem]
OkVal(val) == [kind |-> "ok", val |-> val]
Panic(msg) == [kind |-> "panic", msg |-> msg]
PanicMem(msg, mem) == [kind |-> "panic", msg |-> msg, mem |-> mem]

(***************************************************************************)
(* Paths (path.rs).                                                        *)
(***************************************************************************)
LensPath_empty == [elements |-> <<>>]

LensPath_new(id) == [elements |-> <<[id |-> id]>>]

LensPath_from_pair(id0, id1) == [elements |-> <<[id |-> id0], [id |-> id1]>>]

LensPath_from_vec(ids) == [elements |-> [k \in 1..Len(ids) |-> [id |-> ids[k]]]]

\* Vec::extend(&rhs.elements): push each element of the iterator in turn.
RECURSIVE extend(_, _)
extend(elements, iter) ==
    IF iter = <<>> THEN elements
    ELSE extend(Append(elements, Head(iter)), Tail(iter))

\* A concat that pushes only the first element of rhs.
LensPath_concat_first_only(lhs, rhs) ==
    [elements |-> IF rhs.elements = <<>> THEN lhs.elements
                  ELSE Append(lhs.elements, Head(rhs.elements))]

\* A concat that puts rhs in front of lhs.
LensPath_concat_swapped(lhs, rhs) ==
    [elements |-> extend(rhs.elements, lhs.elements)]

LensPath_concat(lhs, rhs) ==
    [elements |-> extend(lhs.elements, rhs.elements)]

(***************************************************************************)
(* The structures of the test suites (lens.rs, mod tests; tests/lib.rs).   *)
(***************************************************************************)
\* The structures of tests/lib.rs.
LibStructFields(name) ==
    CASE name = "Address" -> <<[name |-> "street", ty |-> "String"], [name |-> "city", ty |-> "String"],
                               [name |-> "postcode", ty |-> "String"]>>
      [] name = "Person" -> <<[name |-> "name", ty |-> "String"], [name |-> "age", ty |-> "u8"],
                              [name |-> "address", ty |-> "Address"]>>
      [] name = "Header" -> <<[name |-> "count", ty |-> "u16"]>>
      [] name = "Packet" -> <<[name |-> "header", ty |-> "Header"], [name |-> "data", ty |-> "Vec<u8>"]>>
      [] OTHER -> <<>>

StructFields(name) ==
    CASE name = "Struct1" -> <<[name |-> "foo", ty |-> "i32"], [name |-> "bar", ty |-> "i16"]>>
      [] name = "Struct2" -> <<[name |-> "baz", ty |-> "i32"], [name |-> "inner", ty |-> "Struct1"]>>
      [] name = "Struct3" -> <<[name |-> "inner", ty |-> "Struct2"]>>
      [] name = "Struct4" -> <<[name |-> "inner_vec", ty |-> "Vec<Struct1>"]>>
      [] name = "Struct5" -> <<[name |-> "enabled", ty |-> "bool"]>>
      [] name = "Struct6" -> <<[name |-> "left_enabled", ty |-> "bool"], [name |-> "left", ty |-> "u32"],
                               [name |-> "right", ty |-> "u32"]>>
      [] OTHER -> LibStructFields(name)

StructNames == {"Struct1", "Struct2", "Struct3", "Struct4", "Struct5", "Struct6"}

\* A type declared as a structure, in the crate's tests or in tests/lib.rs.
IsStruct(t) == StructFields(t) # <<>>

\* vec_lens::<T> is generic in T; the vectors of scalars here are Vec<u8>
\* (Packet.data in tests/lib.rs), whose whole range the model can compute in.
IsVec(t) == t \in {"Vec<Struct1>", "Vec<u8>"}

ElemType(t) == IF t = "Vec<Struct1>" THEN "Struct1" ELSE "u8"

\* The integer types of the fields: those num_traits::PrimInt is implemented
\* for, which increment_tx and decrement_tx require of their target.
IsInt(t) == t \in {"i32", "i16", "u8", "u16", "u32"}

(***************************************************************************)
(* Whole numbers of any size, as the code's arithmetic needs them: the     *)
(* number hi * 65536 + lo, with lo in 0..65535 and hi of either sign.  A   *)
(* value of type u32 is held in this form (its upper half is beyond the    *)
(* numbers TLC computes with, which end at 2147483647); a value of the     *)
(* other integer types is held as a plain number.  Arithmetic is done on   *)
(* the wide form and judged against the range of the type afterwards.      *)
(***************************************************************************)
Limb == 65536

WideOf(n) == [hi |-> n \div Limb, lo |-> n % Limb]

\* The u32 of the literal n.
u32(n) == WideOf(n)

\* A held value of type t as a wide number, and back.
Wide(t, x) == IF t = "u32" THEN x ELSE WideOf(x)

Narrow(t, w) == IF t = "u32" THEN w ELSE w.hi * Limb + w.lo

\* w + k, for a small k of either sign
WideAdd(w, k) ==
    LET lo == w.lo + k IN [hi |-> w.hi + (lo \div Limb), lo |-> lo % Limb]

\* w * 2
WideTimes2(w) ==
    LET lo == 2 * w.lo IN [hi |-> 2 * w.hi + (lo \div Limb), lo |-> lo % Limb]

WideLeq(a, b) == a.hi < b.hi \/ (a.hi = b.hi /\ a.lo <= b.lo)

\* T::MIN and T::MAX
WideMin(t) ==
    CASE t = "i32" -> [hi |-> -32768, lo |-> 0]
      [] t = "i16" -> WideOf(-32768)
      [] t = "u8" -> WideOf(0)
      [] t = "u16" -> WideOf(0)
      [] t = "u32" -> WideOf(0)

WideMax(t) ==
    CASE t = "i32" -> [hi |-> 32767, lo |-> 65535]
      [] t = "i16" -> WideOf(32767)
      [] t = "u8" -> WideOf(255)
      [] t = "u16" -> WideOf(65535)
      [] t = "u32" -> [hi |-> 65535, lo |-> 65535]

\* The ends of the range as held values: IntMax("u32") is 4294967295.
IntMin(t) == Narrow(t, WideMin(t))

IntMax(t) == Narrow(t, WideMax(t))

\* The wide number w is below the range of t; w is above it.
Below(t, w) == ~WideLeq(WideMin(t), w)

Above(t, w) == ~WideLeq(w, WideMax(t))

\* The values the runs start from and pass as arguments.
I32Vals == {0, 42}
I16Vals == {73, 116}
U8Vals == {0, 42}

VecVals(S) == UNION {[1..n -> S] : n \in 0..MaxVecLen}

Struct1Vals == [foo : I32Vals, bar : I16Vals]
Struct2Vals == [baz : I32Vals, inner : Struct1Vals]
Struct3Vals == [inner : Struct2Vals]
Struct5Vals == [enabled : BOOLEAN]

\* The elements vectors of Struct1 are built from.
Struct1Elems == {[foo |-> 42, bar |-> 73], [foo |-> 110, bar |-> 210]}

Struct4Vals == [inner_vec : VecVals(Struct1Elems)]

\* The structures a run starts from.
Values(t) ==
    CASE t = "Struct1" -> Struct1Vals
      [] t = "Struct2" -> Struct2Vals
      [] t = "Struct3" -> Struct3Vals
      [] t = "Struct4" -> Struct4Vals
      [] t = "Struct5" -> Struct5Vals
      [] t = "Vec<u8>" -> VecVals(U8Vals)

\* The target values a run passes to set and mutate.
Targets(t) ==
    CASE t = "i32" -> I32Vals
      [] t = "i16" -> I16Vals
      [] t = "u8" -> U8Vals
      [] t = "bool" -> BOOLEAN
      [] t = "Struct1" -> Struct1Elems
      [] t = "Struct2" -> {[baz |-> 123, inner |-> e] : e \in Struct1Elems}
      [] t = "Vec<Struct1>" -> {<<>>, <<[foo |-> 0, bar |-> 116], [foo |-> 42, bar |-> 73]>>}

RootTypes == {"Struct1", "Struct2", "Struct3", "Struct4", "Struct5", "Vec<u8>"}

(***************************************************************************)
(* References: a place is the sequence of hops from the root.              *)
(***************************************************************************)
FieldHop(name) == [f |-> name]
IndexHop(index) == [i |-> index]

Key(hop) == IF "f" \in DOMAIN hop THEN hop.f ELSE hop.i + 1

\* *reference
RECURSIVE ValueAt(_, _)
ValueAt(s, place) ==
    IF place = <<>> THEN s
    ELSE ValueAt(s[Key(Head(place))], Tail(place))

\* *reference = value
RECURSIVE WriteAt(_, _, _)
WriteAt(s, place, value) ==
    IF place = <<>> THEN value
    ELSE [s EXCEPT ![Key(Head(place))] = WriteAt(s[Key(Head(place))], Tail(place), value)]

(***************************************************************************)
(* Generated field lenses (lens-derive, lenses_derive).                    *)
(***************************************************************************)
is_primitive(t) ==
    t \in {"i8", "i16", "i32", "i64", "u8", "u16", "u32", "u64", "f32", "f64", "String"}

\* lens_items: one lens per named field, in declaration order, with the
\* zero-based position of the field as its path index.
lenses_derive(struct_name) ==
    LET fields == StructFields(struct_name) IN
    [k \in 1..Len(fields) |->
        [kind |-> "field", source |-> struct_name, field |-> fields[k].name,
         target |-> fields[k].ty, field_index |-> k - 1,
         value_lens |-> is_primitive(fields[k].ty)]]

FieldLens_path(l) == LensPath_new(l.field_index)

\* A mutate that assigns to a copy of the source.
FieldLens_mutate_copy(l, s, r, target) == OkMem(s)

\* A mutate that assigns only in the first call made on a structure.
FieldLens_mutate_first_wins(l, s, r, target) ==
    IF Len(pin) > 0 THEN OkMem(s) ELSE OkMem(WriteAt(s, Append(r, FieldHop(l.field)), target))

\* source.field = target
FieldLens_mutate(l, s, r, target) ==
    OkMem(WriteAt(s, Append(r, FieldHop(l.field)), target))

\* &(*source).field
FieldLens_get_ref(l, s, r) == OkRef(Append(r, FieldHop(l.field)))

\* &mut (*source).field
FieldLens_get_mut_ref(l, s, r) == OkRef(Append(r, FieldHop(l.field)))

\* A get that returns the default of the (integer) target type instead of the field.
FieldLens_get_zero(l, s, r) == OkVal(0)

\* (*source).field.clone()
FieldLens_get(l, s, r) == OkVal(ValueAt(s, Append(r, FieldHop(l.field))))

(***************************************************************************)
(* VecLens (lens.rs).                                                      *)
(***************************************************************************)
vec_lens(T, index) == [kind |-> "vec", elem |-> T, index |-> index]

\* A vec lens whose path moves with every call made before.
VecLens_path_offset(l) == LensPath_new(l.index + Len(pin))

VecLens_path(l) == LensPath_new(l.index)

\* A mutate that inserts the target at the index instead of overwriting.
VecLens_mutate_insert(l, s, r, target) ==
    LET v == ValueAt(s, r) IN
    IF l.index < Len(v)
    THEN OkMem(WriteAt(s, r, SubSeq(v, 1, l.index) \o <<target>> \o SubSeq(v, l.index + 1, Len(v))))
    ELSE PanicMem(PanicIndex, s)

\* A mutate that assigns the target to every element up to the index.
VecLens_mutate_fill(l, s, r, target) ==
    LET v == ValueAt(s, r) IN
    IF l.index < Len(v)
    THEN OkMem(WriteAt(s, r, [k \in 1..Len(v) |-> IF k <= l.index + 1 THEN target ELSE v[k]]))
    ELSE PanicMem(PanicIndex, s)

\* A mutate that ignores an index past the end.
VecLens_mutate_silent(l, s, r, target) ==
    IF l.index < Len(ValueAt(s, r))
    THEN OkMem(WriteAt(s, Append(r, IndexHop(l.index)), target))
    ELSE OkMem(s)

\* A mutate that pushes the target and swaps it into place: source.push(target);
\* source.swap_remove(self.index).  swap_remove panics past the end, after the push.
VecLens_mutate_push_swap(l, s, r, target) ==
    LET v == ValueAt(s, r)
        pushed == Append(v, target)
    IN  IF l.index < Len(v) THEN OkMem(WriteAt(s, Append(r, IndexHop(l.index)), target))
        ELSE IF l.index = Len(v) THEN OkMem(s)
        ELSE PanicMem(PanicIndex, WriteAt(s, r, pushed))

\* A mutate that cuts the vector at the index and pushes the target:
\* source.truncate(self.index); source.push(target).
VecLens_mutate_truncate(l, s, r, target) ==
    LET v == ValueAt(s, r) IN
    IF l.index < Len(v) THEN OkMem(WriteAt(s, r, Append(SubSeq(v, 1, l.index), target)))
    ELSE PanicMem(PanicIndex, s)

\* A mutate that moves the old element one position up before assigning:
\* source[self.index + 1] = source[self.index] (when there is one); source[self.index] = target.
VecLens_mutate_shift(l, s, r, target) ==
    LET v == ValueAt(s, r) IN
    IF l.index < Len(v)
    THEN OkMem(WriteAt(s, r, [k \in 1..Len(v) |-> IF k = l.index + 1 THEN target
                                                   ELSE IF k = l.index + 2 THEN v[l.index + 1]
                                                   ELSE v[k]]))
    ELSE PanicMem(PanicIndex, s)

\* source[self.index] = target: IndexMut panics past the end.
VecLens_mutate(l, s, r, target) ==
    IF l.index < Len(ValueAt(s, r))
    THEN OkMem(WriteAt(s, Append(r, IndexHop(l.index)), target))
    ELSE PanicMem(PanicIndex, s)

\* A get_ref that clamps the index to the last element.
VecLens_get_ref_clamped(l, s, r) ==
    LET n == Len(ValueAt(s, r)) IN
    IF l.index < n THEN OkRef(Append(r, IndexHop(l.index)))
    ELSE IF n > 0 THEN OkRef(Append(r, IndexHop(n - 1)))
    ELSE Panic(PanicUnwrapNone)

\* source.get(self.index).unwrap(): get is None past the end, unwrap panics.
VecLens_get_ref(l, s, r) ==
    IF l.index < Len(ValueAt(s, r))
    THEN OkRef(Append(r, IndexHop(l.index)))
    ELSE Panic(PanicUnwrapNone)

\* source.get_mut(self.index).unwrap()
VecLens_get_mut_ref(l, s, r) ==
    IF l.index < Len(ValueAt(s, r))
    THEN OkRef(Append(r, IndexHop(l.index)))
    ELSE Panic(PanicUnwrapNone)

(***************************************************************************)
(* ComposedLens and the dispatch over the lens implementations.            *)
(***************************************************************************)
compose(lhs, rhs) == [kind |-> "compose", lhs |-> lhs, rhs |-> rhs]

\* compose_lens!(head, tail...) => compose(head, compose_lens!(tail...))
RECURSIVE compose_lens(_)
compose_lens(chain) ==
    IF Len(chain) = 1 THEN Head(chain)
    ELSE compose(Head(chain), compose_lens(Tail(chain)))

RECURSIVE Source(_)
Source(l) ==
    CASE l.kind = "field" -> l.source
      [] l.kind = "vec" -> IF l.elem = "Struct1" THEN "Vec<Struct1>" ELSE "Vec<u8>"
      [] l.kind = "compose" -> Source(l.lhs)
      [] l.kind = "box" -> Source(l.inner)

RECURSIVE Target(_)
Target(l) ==
    CASE l.kind = "field" -> l.target
      [] l.kind = "vec" -> l.elem
      [] l.kind = "compose" -> Target(l.rhs)
      [] l.kind = "box" -> Target(l.inner)

RECURSIVE IsValueLens(_)
IsValueLens(l) ==
    CASE l.kind = "field" -> l.value_lens
      [] l.kind = "vec" -> FALSE
      [] l.kind = "compose" -> IsValueLens(l.rhs)
      [] l.kind = "box" -> IsValueLens(l.inner)

RECURSIVE path(_)
RECURSIVE mutate(_, _, _, _)
RECURSIVE get_ref(_, _, _)
RECURSIVE get_mut_ref(_, _, _)
RECURSIVE get(_, _, _)

\* A path that lists the inner lens before the outer one.
ComposedLens_path_swapped(l) == LensPath_concat(path(l.rhs), path(l.lhs))

\* A path that keeps one element for the outer lens, however deep it reaches.
ComposedLens_path_outer_head(l) ==
    LensPath_concat([elements |-> <<Head(path(l.lhs).elements)>>], path(l.rhs))

ComposedLens_path(l) == LensPath_concat(path(l.lhs), path(l.rhs))

ComposedLens_mutate(l, s, r, target) ==
    LET rhs_source == get_mut_ref(l.lhs, s, r) IN
    IF rhs_source.kind # "ok" THEN PanicMem(rhs_source.msg, s)
    ELSE mutate(l.rhs, s, rhs_source.ref, target)

ComposedLens_get_ref(l, s, r) ==
    LET mid == get_ref(l.lhs, s, r) IN
    IF mid.kind # "ok" THEN mid ELSE get_ref(l.rhs, s, mid.ref)

\* A get_mut_ref that hands out the intermediate value the outer lens reaches.
ComposedLens_get_mut_ref_outer(l, s, r) == get_mut_ref(l.lhs, s, r)

ComposedLens_get_mut_ref(l, s, r) ==
    LET mid == get_mut_ref(l.lhs, s, r) IN
    IF mid.kind # "ok" THEN mid ELSE get_mut_ref(l.rhs, s, mid.ref)

ComposedLens_get(l, s, r) ==
    LET mid == get_ref(l.lhs, s, r) IN
    IF mid.kind # "ok" THEN mid ELSE get(l.rhs, s, mid.ref)

\* Box::new(lens)
Box_new(l) == [kind |-> "box", inner |-> l]

\* (**self).path()
Box_path(l) == path(l.inner)

\* A boxed mutate that does not forward the call.
Box_mutate_dropped(l, s, r, target) == OkMem(s)

\* (**self).mutate(source, target)
Box_mutate(l, s, r, target) == mutate(l.inner, s, r, target)

\* (**self).get_ref(source)
Box_get_ref(l, s, r) == get_ref(l.inner, s, r)

\* (**self).get_mut_ref(source)
Box_get_mut_ref(l, s, r) == get_mut_ref(l.inner, s, r)

\* (**self).get(source)
Box_get(l, s, r) == get(l.inner, s, r)

path(l) ==
    CASE l.kind = "field" -> FieldLens_path(l)
      [] l.kind = "vec" -> VecLens_path(l)
      [] l.kind = "compose" -> ComposedLens_path(l)
      [] l.kind = "box" -> Box_path(l)

mutate(l, s, r, target) ==
    CASE l.kind = "field" -> FieldLens_mutate(l, s, r, target)
      [] l.kind = "vec" -> VecLens_mutate(l, s, r, target)
      [] l.kind = "compose" -> ComposedLens_mutate(l, s, r, target)
      [] l.kind = "box" -> Box_mutate(l, s, r, target)

get_ref(l, s, r) ==
    CASE l.kind = "field" -> FieldLens_get_ref(l, s, r)
      [] l.kind = "vec" -> VecLens_get_ref(l, s, r)
      [] l.kind = "compose" -> ComposedLens_get_ref(l, s, r)
      [] l.kind = "box" -> Box_get_ref(l, s, r)

get_mut_ref(l, s, r) ==
    CASE l.kind = "field" -> FieldLens_get_mut_ref(l, s, r)
      [] l.kind = "vec" -> VecLens_get_mut_ref(l, s, r)
      [] l.kind = "compose" -> ComposedLens_get_mut_ref(l, s, r)
      [] l.kind = "box" -> Box_get_mut_ref(l, s, r)

get(l, s, r) ==
    CASE l.kind = "field" -> FieldLens_get(l, s, r)
      [] l.kind = "compose" -> ComposedLens_get(l, s, r)
      [] l.kind = "box" -> Box_get(l, s, r)

\* Lens::set: let mut mutable_source = source; self.mutate(&mut mutable_source, target); mutable_source
set(l, source, target) == mutate(l, source, <<>>, target)

(***************************************************************************)
(* Closures handed to modify and mod_tx (the ones of the test suite), with *)
(* Rust's integer arithmetic: out of the type's range it panics when       *)
(* overflow checks are on and wraps when they are off.                     *)
(***************************************************************************)
Fns == {"add1", "sub1", "mul2"}

\* Two's complement wrap-around: the number of the range of t that differs
\* from w by a multiple of 2^32 (i32, u32: the upper limb is reduced, the lower
\* kept), of 2^16 or of 2^8.
wrap(t, w) ==
    IF t \in {"i32", "u32"}
    THEN [hi |-> ((w.hi - WideMin(t).hi) % Limb) + WideMin(t).hi, lo |-> w.lo]
    ELSE LET size == IntMax(t) - IntMin(t) + 1 IN
         WideOf((((w.hi * Limb + w.lo) - IntMin(t)) % size) + IntMin(t))

\* The result w of an arithmetic operation in type t: the value when it is in
\* range, else a panic (overflow checks on) or the wrapped value (off).
arith(t, w) ==
    IF ~Below(t, w) /\ ~Above(t, w) THEN OkVal(Narrow(t, w))
    ELSE IF overflow_checks THEN Panic(PanicOverflow)
    ELSE OkVal(Narrow(t, wrap(t, w)))

\* The arithmetic of the closures |a| a + 1, |a| a - 1, |foo| foo * 2,
\* |c| c + 2, before the range of the type is applied.
closure(f, w) ==
    CASE f = "add1" -> WideAdd(w, 1)
      [] f = "sub1" -> WideAdd(w, -1)
      [] f = "mul2" -> WideTimes2(w)
      [] f = "add2" -> WideAdd(w, 2)

apply_fn(f, t, x) ==
    IF f = "id" THEN OkVal(x) ELSE arith(t, closure(f, Wide(t, x)))

\* The closures of the transform tests: add 1, add 2, multiply by 2, subtract 1.
TxFns == Fns \cup {"add2"}

\* The expressions e of the closures |_| e, by target type.
Consts(T) ==
    CASE T = "i32" -> <<0, 42>>
      [] T = "i16" -> <<73, 116>>
      [] T = "u8" -> <<0, 42>>
      [] T = "u32" -> <<u32(0), u32(42)>>
      [] T = "u16" -> <<0, 42>>
      [] T = "Header" -> <<[count |-> 42]>>
      [] T = "Vec<u8>" -> <<<<>>, <<0, 42>>>>
      [] T = "bool" -> <<FALSE, TRUE>>
      [] T = "Struct1" -> <<[foo |-> 42, bar |-> 73], [foo |-> 110, bar |-> 210]>>
      [] T = "Struct2" -> <<[baz |-> 123, inner |-> [foo |-> 42, bar |-> 73]]>>
      [] T = "Vec<Struct1>" -> <<<<>>, <<[foo |-> 0, bar |-> 116], [foo |-> 42, bar |-> 73]>>>>

\* Closures handed to set_tx, Fn(&Source) -> Target: |_| e, |s| s.foo + 42,
\* one that reads another field of the source than the target, and one that
\* reads the length of a vector.
set_fn(f, source) ==
    CASE f.name = "const" -> OkVal(Consts(f.target)[f.k])
      [] f.name = "foo_plus_42" -> arith("i32", WideAdd(Wide("i32", source.foo), 42))
      [] f.name = "bar_widened" -> OkVal(source.bar)
      [] f.name = "len" -> OkVal(Len(source))

SetFns(S, T) ==
    {[name |-> "const", target |-> T, k |-> k] : k \in 1..Len(Consts(T))}
    \cup (IF S = "Struct1" /\ T = "i32" THEN {[name |-> "foo_plus_42"], [name |-> "bar_widened"]} ELSE {})
    \cup (IF S = "Vec<u8>" /\ T = "u8" THEN {[name |-> "len"]} ELSE {})

(***************************************************************************)
(* modify and mutate_with_fn (lens.rs), LensModifyTransform (lens_tx.rs).  *)
(***************************************************************************)
\* A mutate_with_fn that applies the function to its own result.
mutate_with_fn_twice(l, s, r, f) ==
    LET cur == get_ref(l, s, r) IN
    IF cur.kind # "ok" THEN PanicMem(cur.msg, s)
    ELSE LET once == apply_fn(f, Target(l), ValueAt(s, cur.ref)) IN
         IF once.kind # "ok" THEN PanicMem(once.msg, s)
         ELSE LET target == apply_fn(f, Target(l), once.val) IN
              IF target.kind # "ok" THEN PanicMem(target.msg, s)
              ELSE mutate(l, s, r, target.val)

\* let target = f(lens.get_ref(source)); lens.mutate(source, target);
mutate_with_fn(l, s, r, f) ==
    LET cur == get_ref(l, s, r) IN
    IF cur.kind # "ok" THEN PanicMem(cur.msg, s)
    ELSE LET target == apply_fn(f, Target(l), ValueAt(s, cur.ref)) IN
         IF target.kind # "ok" THEN PanicMem(target.msg, s)
         ELSE mutate(l, s, r, target.val)

modify(l, source, f) == mutate_with_fn(l, source, <<>>, f)

mod_tx(l, func) == [kind |-> "mod_tx", lens |-> l, func |-> func]

\* let target = (self.func)(self.lens.get_ref(&input)); self.lens.set(input, target)
LensModifyTransform_apply(tx, input) ==
    LET cur == get_ref(tx.lens, input, <<>>) IN
    IF cur.kind # "ok" THEN PanicMem(cur.msg, input)
    ELSE LET target == apply_fn(tx.func, Target(tx.lens), ValueAt(input, cur.ref)) IN
         IF target.kind # "ok" THEN PanicMem(target.msg, input)
         ELSE set(tx.lens, input, target.val)

(***************************************************************************)
(* The other lens transforms (lens_tx.rs) and the transforms of            *)
(* transform.rs.  apply consumes its input and returns the output; a       *)
(* transform over a structure returns the structure, one over a scalar the *)
(* scalar.                                                                 *)
(***************************************************************************)
set_tx(l, func) == [kind |-> "set_tx", lens |-> l, func |-> func]

increment_tx(l) == [kind |-> "increment_tx", lens |-> l]

decrement_tx(l) == [kind |-> "decrement_tx", lens |-> l]

not_tx(l) == [kind |-> "not_tx", lens |-> l]

identity_tx(X) == [kind |-> "identity_tx", X |-> X]

fn_tx(f, X) == [kind |-> "fn_tx", func |-> f, X |-> X]

composed_tx(lhs, rhs) == [kind |-> "composed_tx", lhs |-> lhs, rhs |-> rhs]

\* compose_tx!(head, tail...) => composed_tx(head, compose_tx!(tail...))
RECURSIVE compose_tx(_)
compose_tx(txs) ==
    IF Len(txs) = 1 THEN Head(txs)
    ELSE composed_tx(Head(txs), compose_tx(Tail(txs)))

RECURSIVE apply(_, _)

\* A set transform that evaluates its function again on the structure it has just set.
LensSetTransform_apply_reevaluated(tx, input) ==
    LET first == set_fn(tx.func, input) IN
    IF first.kind # "ok" THEN PanicMem(first.msg, input)
    ELSE LET mid == set(tx.lens, input, first.val) IN
         IF mid.kind # "ok" THEN mid
         ELSE LET new_value == set_fn(tx.func, mid.mem) IN
              IF new_value.kind # "ok" THEN PanicMem(new_value.msg, mid.mem)
              ELSE set(tx.lens, mid.mem, new_value.val)

\* let new_value = (&self.func)(&input); self.lens.set(input, new_value)
LensSetTransform_apply(tx, input) ==
    LET new_value == set_fn(tx.func, input) IN
    IF new_value.kind # "ok" THEN PanicMem(new_value.msg, input)
    ELSE set(tx.lens, input, new_value.val)

\* An increment by checked_add(one()).unwrap(): fails on overflow in every build.
LensIncrementTransform_apply_checked(tx, input) ==
    LET cur == get_ref(tx.lens, input, <<>>) IN
    IF cur.kind # "ok" THEN PanicMem(cur.msg, input)
    ELSE LET n == WideAdd(Wide(Target(tx.lens), ValueAt(input, cur.ref)), 1) IN
         IF Above(Target(tx.lens), n) THEN PanicMem(PanicUnwrapNone, input)
         ELSE set(tx.lens, input, Narrow(Target(tx.lens), n))

\* let target = *self.lens.get_ref(&input) + L::Target::one(); self.lens.set(input, target)
LensIncrementTransform_apply(tx, input) ==
    LET cur == get_ref(tx.lens, input, <<>>) IN
    IF cur.kind # "ok" THEN PanicMem(cur.msg, input)
    ELSE LET target == arith(Target(tx.lens), WideAdd(Wide(Target(tx.lens), ValueAt(input, cur.ref)), 1)) IN
         IF target.kind # "ok" THEN PanicMem(target.msg, input)
         ELSE set(tx.lens, input, target.val)

\* A decrement that adds one.
LensDecrementTransform_apply_plus(tx, input) ==
    LET cur == get_ref(tx.lens, input, <<>>) IN
    IF cur.kind # "ok" THEN PanicMem(cur.msg, input)
    ELSE LET target == arith(Target(tx.lens), WideAdd(Wide(Target(tx.lens), ValueAt(input, cur.ref)), 1)) IN
         IF target.kind # "ok" THEN PanicMem(target.msg, input)
         ELSE set(tx.lens, input, target.val)

\* let target = *self.lens.get_ref(&input) - L::Target::one(); self.lens.set(input, target)
LensDecrementTransform_apply(tx, input) ==
    LET cur == get_ref(tx.lens, input, <<>>) IN
    IF cur.kind # "ok" THEN PanicMem(cur.msg, input)
    ELSE LET target == arith(Target(tx.lens), WideAdd(Wide(Target(tx.lens), ValueAt(input, cur.ref)), -1)) IN
         IF target.kind # "ok" THEN PanicMem(target.msg, input)
         ELSE set(tx.lens, input, target.val)

\* A not transform that sets the target it has read.
LensNotTransform_apply_same(tx, input) ==
    LET cur == get_ref(tx.lens, input, <<>>) IN
    IF cur.kind # "ok" THEN PanicMem(cur.msg, input)
    ELSE set(tx.lens, input, ValueAt(input, cur.ref))

\* let target = self.lens.get_ref(&input).clone(); self.lens.set(input, !target)
LensNotTransform_apply(tx, input) ==
    LET cur == get_ref(tx.lens, input, <<>>) IN
    IF cur.kind # "ok" THEN PanicMem(cur.msg, input)
    ELSE set(tx.lens, input, ~ValueAt(input, cur.ref))

\* X::default()
Default(X) ==
    CASE X = "Struct1" -> [foo |-> 0, bar |-> 0]
      [] X = "Struct2" -> [baz |-> 0, inner |-> [foo |-> 0, bar |-> 0]]
      [] X = "Struct5" -> [enabled |-> FALSE]
      [] X = "Struct6" -> [left_enabled |-> FALSE, left |-> u32(0), right |-> u32(0)]
      [] X = "Packet" -> [header |-> [count |-> 0], data |-> <<>>]
      [] X = "Vec<u8>" -> <<>>
      [] X = "u8" -> 0

\* An identity transform that returns a fresh value of its type.
IdentityTransform_apply_default(tx, input) == OkMem(Default(tx.X))

\* input
IdentityTransform_apply(tx, input) == OkMem(input)

\* (self.func)(input)
FnTransform_apply(tx, input) ==
    LET y == apply_fn(tx.func, tx.X, input) IN
    IF y.kind # "ok" THEN PanicMem(y.msg, input) ELSE OkMem(y.val)

\* A composition that applies the right-hand side first.
ComposedTransform_apply_rhs_first(tx, input) ==
    LET mid == apply(tx.rhs, input) IN
    IF mid.kind # "ok" THEN mid ELSE apply(tx.lhs, mid.mem)

\* A composition that applies the left-hand side twice.
ComposedTransform_apply_lhs_twice(tx, input) ==
    LET once == apply(tx.lhs, input) IN
    IF once.kind # "ok" THEN once
    ELSE LET mid == apply(tx.lhs, once.mem) IN
         IF mid.kind # "ok" THEN mid ELSE apply(tx.rhs, mid.mem)

\* A composition that gives up its right-hand side at its first application
\* (as one holding it in an Option and taking it would): later applications
\* apply the left-hand side only.
ComposedTransform_apply_spent(tx, input) ==
    LET mid == apply(tx.lhs, input) IN
    IF mid.kind # "ok" \/ Len(pin) > 0 THEN mid ELSE apply(tx.rhs, mid.mem)

\* self.rhs.apply(self.lhs.apply(input))
ComposedTransform_apply(tx, input) ==
    LET mid == apply(tx.lhs, input) IN
    IF mid.kind # "ok" THEN mid ELSE apply(tx.rhs, mid.mem)

apply(tx, input) ==
    CASE tx.kind = "mod_tx" -> LensModifyTransform_apply(tx, input)
      [] tx.kind = "set_tx" -> LensSetTransform_apply(tx, input)
      [] tx.kind = "increment_tx" -> LensIncrementTransform_apply(tx, input)
      [] tx.kind = "decrement_tx" -> LensDecrementTransform_apply(tx, input)
      [] tx.kind = "not_tx" -> LensNotTransform_apply(tx, input)
      [] tx.kind = "identity_tx" -> IdentityTransform_apply(tx, input)
      [] tx.kind = "fn_tx" -> FnTransform_apply(tx, input)
      [] tx.kind = "composed_tx" -> ComposedTransform_apply(tx, input)

(***************************************************************************)
(* The lenses a caller can build for a structure: chains of leaf lenses,   *)
(* as lens!(Struct.a.b[i].c) hands them to compose_lens!.                  *)
(***************************************************************************)
LeafLenses(t) ==
    IF IsStruct(t) THEN {lenses_derive(t)[k] : k \in 1..Len(StructFields(t))}
    ELSE IF IsVec(t) THEN {vec_lens(ElemType(t), i) : i \in 0..MaxIndex}
    ELSE {}

RECURSIVE Chains(_, _)
Chains(t, depth) ==
    IF depth = 0 THEN {}
    ELSE {<<l>> : l \in LeafLenses(t)}
         \cup UNION {{<<l>> \o c : c \in Chains(Target(l), depth - 1)} : l \in LeafLenses(t)}

(***************************************************************************)
(* The caller: owns one structure and calls the lens operations on it.     *)
(***************************************************************************)
NoPaths == <<>>

NoResults == [done |-> {}, ab |-> LensPath_empty, left |-> LensPath_empty, right |-> LensPath_empty]

Init ==
    /\ ty \in RootTypes
    /\ src \in Values(ty)
    /\ pre = src
    /\ op = [name |-> "new"]
    /\ out = [kind |-> "ok"]
    /\ steps = 0
    /\ overflow_checks \in BOOLEAN
    /\ pin = NoPaths
    /\ pout = NoResults

Alive == out.kind = "ok" /\ steps < MaxSteps

\* s1 = lens.set(s0, v)
Set(chain, v) ==
    LET r == set(compose_lens(chain), src, v) IN
    /\ Alive
    /\ pre' = src
    /\ op' = [name |-> "set", chain |-> chain, arg |-> v]
    /\ out' = r
    /\ src' = r.mem
    /\ steps' = steps + 1
    /\ UNCHANGED <<ty, overflow_checks, pin, pout>>

\* lens.mutate(&mut s, v)
Mutate(chain, v) ==
    LET r == mutate(compose_lens(chain), src, <<>>, v) IN
    /\ Alive
    /\ pre' = src
    /\ op' = [name |-> "mutate", chain |-> chain, arg |-> v]
    /\ out' = r
    /\ src' = r.mem
    /\ steps' = steps + 1
    /\ UNCHANGED <<ty, overflow_checks, pin, pout>>

\* s1 = modify(&lens, s0, f)
Modify(chain, f) ==
    LET r == modify(compose_lens(chain), src, f) IN
    /\ Alive
    /\ pre' = src
    /\ op' = [name |-> "modify", chain |-> chain, arg |-> f]
    /\ out' = r
    /\ src' = r.mem
    /\ steps' = steps + 1
    /\ UNCHANGED <<ty, overflow_checks, pin, pout>>

\* s1 = mod_tx(lens, f).apply(s0)
ModTx(chain, f) ==
    LET r == apply(mod_tx(compose_lens(chain), f), src) IN
    /\ Alive
    /\ pre' = src
    /\ op' = [name |-> "mod_tx", chain |-> chain, arg |-> f]
    /\ out' = r
    /\ src' = r.mem
    /\ steps' = steps + 1
    /\ UNCHANGED <<ty, overflow_checks, pin, pout>>

Read(r) == IF r.kind = "ok" THEN [kind |-> "ok", ref |-> r.ref, val |-> ValueAt(src, r.ref)] ELSE r

\* *lens.get_ref(&s)
GetRef(chain) ==
    /\ Alive
    /\ pre' = src
    /\ op' = [name |-> "get_ref", chain |-> chain]
    /\ out' = Read(get_ref(compose_lens(chain), src, <<>>))
    /\ steps' = steps + 1
    /\ UNCHANGED <<ty, src, overflow_checks, pin, pout>>

\* *lens.get_mut_ref(&mut s)
GetMutRef(chain) ==
    /\ Alive
    /\ pre' = src
    /\ op' = [name |-> "get_mut_ref", chain |-> chain]
    /\ out' = Read(get_mut_ref(compose_lens(chain), src, <<>>))
    /\ steps' = steps + 1
    /\ UNCHANGED <<ty, src, overflow_checks, pin, pout>>

\* lens.get(&s)
Get(chain) ==
    /\ Alive
    /\ IsValueLens(compose_lens(chain))
    /\ pre' = src
    /\ op' = [name |-> "get", chain |-> chain]
    /\ out' = get(compose_lens(chain), src, <<>>)
    /\ steps' = steps + 1
    /\ UNCHANGED <<ty, src, overflow_checks, pin, pout>>

\* lens.path()
Path(chain) ==
    /\ Alive
    /\ pre' = src
    /\ op' = [name |-> "path", chain |-> chain]
    /\ out' = OkVal(path(compose_lens(chain)))
    /\ steps' = steps + 1
    /\ UNCHANGED <<ty, src, overflow_checks, pin, pout>>

\* Every chain a caller can build for each root type.
AllChains == [t \in RootTypes |-> Chains(t, MaxDepth)]

Lenses == AllChains[ty]

TargetOf(chain) == Target(compose_lens(chain))

SetStep == Alive /\ \E chain \in Lenses : \E v \in Targets(TargetOf(chain)) : Set(chain, v)

MutateStep == Alive /\ \E chain \in Lenses : \E v \in Targets(TargetOf(chain)) : Mutate(chain, v)

ModifyStep == Alive /\ \E chain \in Lenses : \E f \in Fns : IsInt(TargetOf(chain)) /\ Modify(chain, f)

ModTxStep == Alive /\ \E chain \in Lenses : \E f \in Fns : IsInt(TargetOf(chain)) /\ ModTx(chain, f)

GetRefStep == Alive /\ \E chain \in Lenses : GetRef(chain)

GetMutRefStep == Alive /\ \E chain \in Lenses : GetMutRef(chain)

GetStep == Alive /\ \E chain \in Lenses : Get(chain)

PathStep == Alive /\ \E chain \in Lenses : Path(chain)

Next ==
    \/ SetStep
    \/ MutateStep
    \/ ModifyStep
    \/ ModTxStep
    \/ GetRefStep
    \/ GetMutRefStep
    \/ GetStep
    \/ PathStep

Spec == Init /\ [][Next]_vars

(***************************************************************************)
(* A caller that boxes lenses: it builds the lens of a chain with some of  *)
(* the leaf lenses, or the whole composition, wrapped in a Box, and makes  *)
(* one call through it.                                                    *)
(***************************************************************************)
\* compose_lens!(l1, Box::new(l2), ...) for the positions in boxes; position 0
\* stands for boxing the composition itself.
BoxedLens(chain, boxes) ==
    LET leaves == [k \in 1..Len(chain) |-> IF k \in boxes THEN Box_new(chain[k]) ELSE chain[k]]
    IN  IF 0 \in boxes THEN Box_new(compose_lens(leaves)) ELSE compose_lens(leaves)

Boxings(chain) == (SUBSET (0..Len(chain))) \ {{}}

FirstCall == op.name = "new"

BoxSet(chain, boxes, v) ==
    LET r == set(BoxedLens(chain, boxes), src, v) IN
    /\ FirstCall
    /\ pre' = src
    /\ op' = [name |-> "set", chain |-> chain, boxes |-> boxes, arg |-> v]
    /\ out' = r
    /\ src' = r.mem
    /\ steps' = steps + 1
    /\ UNCHANGED <<ty, overflow_checks, pin, pout>>

BoxMutate(chain, boxes, v) ==
    LET r == mutate(BoxedLens(chain, boxes), src, <<>>, v) IN
    /\ FirstCall
    /\ pre' = src
    /\ op' = [name |-> "mutate", chain |-> chain, boxes |-> boxes, arg |-> v]
    /\ out' = r
    /\ src' = r.mem
    /\ steps' = steps + 1
    /\ UNCHANGED <<ty, overflow_checks, pin, pout>>

BoxModify(chain, boxes, f) ==
    LET r == modify(BoxedLens(chain, boxes), src, f) IN
    /\ FirstCall
    /\ pre' = src
    /\ op' = [name |-> "modify", chain |-> chain, boxes |-> boxes, arg |-> f]
    /\ out' = r
    /\ src' = r.mem
    /\ steps' = steps + 1
    /\ UNCHANGED <<ty, overflow_checks, pin, pout>>

BoxGetRef(chain, boxes) ==
    /\ FirstCall
    /\ pre' = src
    /\ op' = [name |-> "get_ref", chain |-> chain, boxes |-> boxes]
    /\ out' = Read(get_ref(BoxedLens(chain, boxes), src, <<>>))
    /\ steps' = steps + 1
    /\ UNCHANGED <<ty, src, overflow_checks, pin, pout>>

BoxGetMutRef(chain, boxes) ==
    /\ FirstCall
    /\ pre' = src
    /\ op' = [name |-> "get_mut_ref", chain |-> chain, boxes |-> boxes]
    /\ out' = Read(get_mut_ref(BoxedLens(chain, boxes), src, <<>>))
    /\ steps' = steps + 1
    /\ UNCHANGED <<ty, src, overflow_checks, pin, pout>>

BoxGet(chain, boxes) ==
    /\ FirstCall
    /\ IsValueLens(BoxedLens(chain, boxes))
    /\ pre' = src
    /\ op' = [name |-> "get", chain |-> chain, boxes |-> boxes]
    /\ out' = get(BoxedLens(chain, boxes), src, <<>>)
    /\ steps' = steps + 1
    /\ UNCHANGED <<ty, src, overflow_checks, pin, pout>>

BoxPath(chain, boxes) ==
    /\ FirstCall
    /\ pre' = src
    /\ op' = [name |-> "path", chain |-> chain, boxes |-> boxes]
    /\ out' = OkVal(path(BoxedLens(chain, boxes)))
    /\ steps' = steps + 1
    /\ UNCHANGED <<ty, src, overflow_checks, pin, pout>>

BoxSetStep ==
    FirstCall /\ \E chain \in Lenses : \E boxes \in Boxings(chain) : \E v \in Targets(TargetOf(chain)) :
        BoxSet(chain, boxes, v)

BoxMutateStep ==
    FirstCall /\ \E chain \in Lenses : \E boxes \in Boxings(chain) : \E v \in Targets(TargetOf(chain)) :
        BoxMutate(chain, boxes, v)

BoxModifyStep ==
    FirstCall /\ \E chain \in Lenses : \E boxes \in Boxings(chain) : \E f \in Fns :
        IsInt(TargetOf(chain)) /\ BoxModify(chain, boxes, f)

BoxGetRefStep == FirstCall /\ \E chain \in Lenses : \E boxes \in Boxings(chain) : BoxGetRef(chain, boxes)

BoxGetMutRefStep == FirstCall /\ \E chain \in Lenses : \E boxes \in Boxings(chain) : BoxGetMutRef(chain, boxes)

BoxGetStep == FirstCall /\ \E chain \in Lenses : \E boxes \in Boxings(chain) : BoxGet(chain, boxes)

BoxPathStep == FirstCall /\ \E chain \in Lenses : \E boxes \in Boxings(chain) : BoxPath(chain, boxes)

BoxNext ==
    \/ BoxSetStep
    \/ BoxMutateStep
    \/ BoxModifyStep
    \/ BoxGetRefStep
    \/ BoxGetMutRefStep
    \/ BoxGetStep
    \/ BoxPathStep

BoxSpec == Init /\ [][BoxNext]_vars

(***************************************************************************)
(* A caller of transforms: it owns one value, builds a transform (a single *)
(* one, a composition of two, or a pipeline of three grouped to the left,  *)
(* to the right or by compose_tx!), and applies it.                        *)
(***************************************************************************)
TxTypes == {"Struct1", "Struct2", "Struct5", "Struct6", "Packet", "Vec<u8>", "u8"}

\* The values a run starts from: those of the tests and the ends of the
\* ranges of i16, u8, u16 and u32.
TxStruct1Vals == [foo : I32Vals \cup {IntMax("i32")}, bar : {73, IntMax("i16"), IntMin("i16")}]

TxValues(t) ==
    CASE t = "Struct1" -> TxStruct1Vals
      [] t = "Struct2" -> [baz : {123}, inner : TxStruct1Vals]
      [] t = "Struct5" -> Struct5Vals
      [] t = "Struct6" -> [left_enabled : BOOLEAN, left : {u32(0), u32(1), IntMax("u32")}, right : {u32(2)}]
      [] t = "Packet" -> [header : [count : {IntMin("u16"), IntMax("u16")}], data : {<<>>, <<IntMax("u8")>>}]
      [] t = "Vec<u8>" -> VecVals({IntMin("u8"), IntMax("u8")})
      [] t = "u8" -> {0, 21, IntMax("u8")}

TxLenses(t) ==
    IF IsStruct(t) \/ IsVec(t) THEN {compose_lens(c) : c \in Chains(t, MaxDepth)} ELSE {}

\* The transforms a caller can build over a value of type t.
Txs(t) ==
    {identity_tx(t)}
    \cup {fn_tx(f, t) : f \in {g \in TxFns : IsInt(t)}}
    \cup UNION {{set_tx(l, f) : f \in SetFns(t, Target(l))} : l \in TxLenses(t)}
    \cup UNION {{mod_tx(l, f) : f \in TxFns} : l \in {x \in TxLenses(t) : IsInt(Target(x))}}
    \cup {increment_tx(l) : l \in {x \in TxLenses(t) : IsInt(Target(x))}}
    \cup {decrement_tx(l) : l \in {x \in TxLenses(t) : IsInt(Target(x))}}
    \cup {not_tx(l) : l \in {x \in TxLenses(t) : Target(x) = "bool"}}

\* The transforms of the pipeline tests over one lens: increment, add 2,
\* multiply by 2 (negation for a boolean target), with the identity and a set.
PipeTxs(t, l) ==
    {identity_tx(t), set_tx(l, [name |-> "const", target |-> Target(l), k |-> 1])}
    \cup (IF IsInt(Target(l)) THEN {increment_tx(l), mod_tx(l, "add2"), mod_tx(l, "mul2")} ELSE {})
    \cup (IF Target(l) = "bool" THEN {not_tx(l)} ELSE {})

\* The pipelines of three transforms a caller builds: over a scalar, of the
\* functions add 1, add 2, multiply by 2 and the identity; over a structure, of
\* the transforms over one of its lenses.
Pipelines(t) ==
    IF IsInt(t)
    THEN LET S == {identity_tx(t)} \cup {fn_tx(f, t) : f \in {"add1", "add2", "mul2"}}
         IN  {<<t1, t2, t3>> : t1 \in S, t2 \in S, t3 \in S}
    ELSE UNION {{<<t1, t2, t3>> : t1 \in PipeTxs(t, l), t2 \in PipeTxs(t, l), t3 \in PipeTxs(t, l)} :
                   l \in TxLenses(t)}

AllTxs == [t \in TxTypes |-> Txs(t)]

AllPipelines == [t \in TxTypes |-> Pipelines(t)]

TxInit ==
    /\ ty \in TxTypes
    /\ src \in TxValues(ty)
    /\ pre = src
    /\ op = [name |-> "new"]
    /\ out = [kind |-> "ok"]
    /\ steps = 0
    /\ overflow_checks \in BOOLEAN
    /\ pin = NoPaths
    /\ pout = NoResults

\* s1 = tx.apply(s0), for tx built as `name` from the transforms `parts`
Applied(name, tx, parts) ==
    LET r == apply(tx, src) IN
    /\ pre' = src
    /\ op' = [name |-> name, tx |-> tx, parts |-> parts]
    /\ out' = r
    /\ src' = r.mem
    /\ steps' = steps + 1
    /\ UNCHANGED <<ty, overflow_checks, pin, pout>>

Apply == FirstCall /\ \E tx \in AllTxs[ty] : Applied("apply", tx, <<tx>>)

ApplyComposed ==
    FirstCall /\ \E t1 \in AllTxs[ty] : \E t2 \in AllTxs[ty] :
        Applied("composed_tx", composed_tx(t1, t2), <<t1, t2>>)

ApplyLeft == FirstCall /\ \E p \in AllPipelines[ty] : Applied("left", composed_tx(composed_tx(p[1], p[2]), p[3]), p)

ApplyRight == FirstCall /\ \E p \in AllPipelines[ty] : Applied("right", composed_tx(p[1], composed_tx(p[2], p[3])), p)

ApplyPipeline == FirstCall /\ \E p \in AllPipelines[ty] : Applied("compose_tx", compose_tx(p), p)

TxNext ==
    \/ Apply
    \/ ApplyComposed
    \/ ApplyLeft
    \/ ApplyRight
    \/ ApplyPipeline

TxSpec == TxInit /\ [][TxNext]_vars

(***************************************************************************)
(* A caller that only reads: it keeps the structure it built and reads it  *)
(* through lenses, several times, keeping a log of the calls.  A call that *)
(* takes the source by reference leaves the caller's binding usable; one   *)
(* that takes it by value moves it out of the caller's hands.              *)
(***************************************************************************)
MaxReads == 2       \* reads per run

\* A get that takes its source by value.
SourceParam_get_by_value(name) ==
    CASE name = "get" -> "Source"
      [] name = "get_ref" -> "&Source"
      [] name \in {"get_mut_ref", "mutate"} -> "&mut Source"
      [] name \in {"set", "modify", "apply"} -> "Source"

\* The type of the source parameter in the signature of each operation.
SourceParam(name) ==
    CASE name \in {"get", "get_ref"} -> "&Source"
      [] name \in {"get_mut_ref", "mutate"} -> "&mut Source"
      [] name \in {"set", "modify", "apply"} -> "Source"

SourceAfter(name) == IF SourceParam(name) = "Source" THEN "moved" ELSE "usable"

CanRead ==
    /\ Len(pin) < MaxReads
    /\ out.kind = "ok"
    /\ pin # <<>> => op.source = "usable"

Logged(call, result) ==
    /\ op' = call
    /\ out' = result
    /\ pin' = Append(pin, [op |-> call, out |-> result])
    /\ steps' = steps + 1
    /\ UNCHANGED <<ty, src, pre, overflow_checks, pout>>

\* *lens.get_ref(&s)
ReadRef ==
    CanRead /\ \E chain \in Lenses :
        Logged([name |-> "get_ref", chain |-> chain, source |-> SourceAfter("get_ref")],
               Read(get_ref(compose_lens(chain), src, <<>>)))

\* lens.get(&s)
ReadValue ==
    CanRead /\ \E chain \in Lenses :
        /\ IsValueLens(compose_lens(chain))
        /\ Logged([name |-> "get", chain |-> chain, source |-> SourceAfter("get")],
                  get(compose_lens(chain), src, <<>>))

ReadNext == ReadRef \/ ReadValue

ReadSpec == Init /\ [][ReadNext]_vars

(***************************************************************************)
(* A caller of LensPath: holds three paths and concatenates them.          *)
(***************************************************************************)
PathIds == {0, 1}

RECURSIVE IdSeqs(_)
IdSeqs(n) ==
    IF n = 0 THEN {<<>>}
    ELSE IdSeqs(n - 1) \cup {Append(q, id) : q \in {x \in IdSeqs(n - 1) : Len(x) = n - 1}, id \in PathIds}

\* The paths a run starts from: every short path, and those of test_lens_path_concat.
Paths ==
    {LensPath_from_vec(ids) : ids \in IdSeqs(MaxPathLen)}
    \cup {LensPath_from_vec(<<1, 2, 3>>), LensPath_from_vec(<<4, 5>>)}

PathInit ==
    /\ ty = "none"
    /\ src = <<>>
    /\ pre = <<>>
    /\ op = [name |-> "new"]
    /\ out = [kind |-> "ok"]
    /\ steps = 0
    /\ overflow_checks = FALSE
    /\ pin \in (Paths \X Paths \X Paths)
    /\ pout = NoResults

\* LensPath::concat(a, b)
Concat ==
    /\ "ab" \notin pout.done
    /\ pout' = [pout EXCEPT !.ab = LensPath_concat(pin[1], pin[2]), !.done = @ \cup {"ab"}]
    /\ UNCHANGED <<ty, src, pre, op, out, steps, overflow_checks, pin>>

\* LensPath::concat(LensPath::concat(a, b), c)
ConcatLeft ==
    /\ "left" \notin pout.done
    /\ pout' = [pout EXCEPT !.left = LensPath_concat(LensPath_concat(pin[1], pin[2]), pin[3]),
                            !.done = @ \cup {"left"}]
    /\ UNCHANGED <<ty, src, pre, op, out, steps, overflow_checks, pin>>

\* LensPath::concat(a, LensPath::concat(b, c))
ConcatRight ==
    /\ "right" \notin pout.done
    /\ pout' = [pout EXCEPT !.right = LensPath_concat(pin[1], LensPath_concat(pin[2], pin[3])),
                            !.done = @ \cup {"right"}]
    /\ UNCHANGED <<ty, src, pre, op, out, steps, overflow_checks, pin>>

PathNext == Concat \/ ConcatLeft \/ ConcatRight

PathSpec == PathInit /\ [][PathNext]_vars

(***************************************************************************)
(* What the properties below speak about, stated without the lens code:    *)
(* the place a chain of leaf lenses names, the places of a structure, and  *)
(* which calls went out of a vector's bounds.                              *)
(***************************************************************************)
TheLens == compose_lens(op.chain)

Wrote == op.name \in {"set", "mutate"} /\ out.kind = "ok"

HopOf(leaf) == IF leaf.kind = "field" THEN FieldHop(leaf.field) ELSE IndexHop(leaf.index)

IdOf(leaf) == IF leaf.kind = "field" THEN leaf.field_index ELSE leaf.index

ChainPlace(chain) == [k \in 1..Len(chain) |-> HopOf(chain[k])]

IsPrefix(p, q) == Len(p) <= Len(q) /\ SubSeq(q, 1, Len(p)) = p

RECURSIVE Places(_, _)
Places(v, t) ==
    {<<>>} \cup
    IF IsStruct(t)
    THEN UNION {{<<FieldHop(StructFields(t)[k].name)>> \o p :
                    p \in Places(v[StructFields(t)[k].name], StructFields(t)[k].ty)} :
                k \in 1..Len(StructFields(t))}
    ELSE IF IsVec(t)
    THEN UNION {{<<IndexHop(i - 1)>> \o p : p \in Places(v[i], ElemType(t))} : i \in 1..Len(v)}
    ELSE {}

\* The places of s that are neither the target, nor inside it, nor on the way to it.
Others(s, target) == {p \in Places(s, ty) : ~IsPrefix(target, p) /\ ~IsPrefix(p, target)}

\* The places of s outside the target.
Outside(s, target) == {p \in Places(s, ty) : ~IsPrefix(target, p)}

\* Some vec lens of the chain has an index past the end of the vector it is applied to.
OutOfBounds(chain, s) ==
    \E k \in 1..Len(chain) :
        /\ chain[k].kind = "vec"
        /\ chain[k].index >= Len(ValueAt(s, ChainPlace(SubSeq(chain, 1, k - 1))))

\* C1: after set(s, v) or mutate(&mut s, v) through a lens, get_ref through the
\* same lens yields a reference to v, and get (for a value lens) returns v.
C1_ReadAfterWrite ==
    Wrote =>
        LET g == get_ref(TheLens, src, <<>>) IN
        /\ g.kind = "ok"
        /\ ValueAt(src, g.ref) = op.arg
        /\ IsValueLens(TheLens) => get(TheLens, src, <<>>) = OkVal(op.arg)

C1_Witness ==
    /\ Wrote /\ op.name = "set" /\ Len(op.chain) = 3
    /\ ValueAt(pre, ChainPlace(op.chain)) # op.arg
    /\ ValueAt(src, ChainPlace(op.chain)) = op.arg

\* C2: a set through a lens changes only the lens's target: every place of the
\* structure outside the target that is not on the way to it (the siblings at
\* every enclosing level, with all they contain) exists after the set exactly
\* when it existed before, and holds the same value.
C2_UnrelatedFieldIsolation ==
    Wrote =>
        LET target == ChainPlace(op.chain) IN
        /\ Outside(src, target) = Outside(pre, target)
        /\ \A p \in Others(pre, target) : ValueAt(src, p) = ValueAt(pre, p)

C2_Witness ==
    /\ Wrote /\ ty = "Struct3" /\ Len(op.chain) = 3 /\ op.chain[3].field = "foo"
    /\ src.inner.inner.foo # pre.inner.inner.foo
    /\ src.inner.baz = pre.inner.baz
    /\ src.inner.inner.bar = pre.inner.inner.bar

\* C3: setting the value just set, through the same lens, returns the same structure.
C3_SetIdempotent ==
    (op.name = "set" /\ out.kind = "ok") => set(TheLens, src, op.arg) = OkMem(src)

C3_Witness ==
    /\ op.name = "set" /\ out.kind = "ok" /\ src # pre
    /\ \E k \in 1..Len(op.chain) : op.chain[k].kind = "vec"

\* C4: a composed lens reads what the inner lens reads in what the outer lens
\* reads: its get_ref and get_mut_ref give the place reached by taking the hops
\* of the chain from the root in order, which is inner.get_ref(outer.get_ref(s)),
\* and its get gives inner.get(outer.get_ref(s)).
C4_ComposedRead ==
    (op.name \in {"get_ref", "get_mut_ref", "get"} /\ Len(op.chain) >= 2) =>
        LET outer == Head(op.chain)
            inner == compose_lens(Tail(op.chain))
            mid == get_ref(outer, pre, <<>>)
        IN  /\ mid.kind # "ok" => out = mid
            /\ mid.kind = "ok" /\ op.name = "get_ref" =>
                   /\ out.kind = get_ref(inner, pre, mid.ref).kind
                   /\ out.kind = "ok" =>
                          /\ out.ref = ChainPlace(op.chain)
                          /\ out.ref = get_ref(inner, pre, mid.ref).ref
                          /\ out.val = ValueAt(pre, ChainPlace(op.chain))
            /\ mid.kind = "ok" /\ op.name = "get_mut_ref" =>
                   /\ out.kind = get_ref(inner, pre, mid.ref).kind
                   /\ out.kind = "ok" => out.ref = ChainPlace(op.chain)
            /\ mid.kind = "ok" /\ op.name = "get" =>
                   /\ out = get(inner, pre, mid.ref)
                   /\ out.kind = "ok" => out.val = ValueAt(pre, ChainPlace(op.chain))
            /\ (ty = "Struct3" /\ Len(op.chain) = 3 /\ op.chain[3].field = "foo") =>
                   out.val = pre.inner.inner.foo

C4_Witness ==
    /\ op.name = "get_ref" /\ ty = "Struct3" /\ Len(op.chain) = 3 /\ op.chain[3].field = "foo"
    /\ out.kind = "ok" /\ out.val = 42 /\ pre.inner.baz = 0

\* C5: the path of a composed lens is the outer lens's path followed by the
\* inner lens's path, so the path of compose_lens!(l1, ..., ln) lists the ids of
\* l1, ..., ln from root to leaf.
C5_ComposedPath ==
    op.name = "path" =>
        /\ out.val.elements = [k \in 1..Len(op.chain) |-> [id |-> IdOf(op.chain[k])]]
        /\ Len(op.chain) >= 2 =>
               out.val.elements =
                   path(Head(op.chain)).elements \o path(compose_lens(Tail(op.chain))).elements

C5_Witness ==
    /\ op.name = "path" /\ ty = "Struct2" /\ Len(op.chain) = 2
    /\ out.val = LensPath_from_pair(1, 0)

\* C6: concat(concat(a, b), c) = concat(a, concat(b, c)).
C6_ConcatAssociative ==
    {"left", "right"} \subseteq pout.done => pout.left = pout.right

C6_Witness ==
    /\ {"left", "right"} \subseteq pout.done
    /\ Len(pin[1].elements) = 3 /\ Len(pin[2].elements) = 2 /\ Len(pin[3].elements) = 2
    /\ Len(pout.left.elements) = 7

\* C7: concat(a, b) has len(a) + len(b) elements: those of a in their order,
\* then those of b in their order.
C7_ConcatElements ==
    "ab" \in pout.done =>
        LET a == pin[1].elements
            b == pin[2].elements
            ab == pout.ab.elements
        IN  /\ Len(ab) = Len(a) + Len(b)
            /\ \A k \in 1..Len(a) : ab[k] = a[k]
            /\ \A k \in 1..Len(b) : ab[Len(a) + k] = b[k]
            /\ (pin[1] = LensPath_from_vec(<<1, 2, 3>>) /\ pin[2] = LensPath_from_vec(<<4, 5>>))
                   => pout.ab = LensPath_from_vec(<<1, 2, 3, 4, 5>>)

C7_Witness ==
    /\ "ab" \in pout.done
    /\ pin[1] = LensPath_from_vec(<<1, 2, 3>>) /\ pin[2] = LensPath_from_vec(<<4, 5>>)
    /\ pout.ab = LensPath_from_vec(<<1, 2, 3, 4, 5>>)

\* C8: modify(lens, s, f) and mod_tx(lens, f).apply(s), when they return, return
\* lens.set(s, f(old)) for old the target's value in s: f is applied once, to
\* the value before the call, and nothing outside the target changes.
C8_Modify ==
    (op.name \in {"modify", "mod_tx"} /\ out.kind = "ok") =>
        LET target == ChainPlace(op.chain)
            old == ValueAt(pre, target)
            new == apply_fn(op.arg, TargetOf(op.chain), old)
        IN  /\ new.kind = "ok"
            /\ out = set(TheLens, pre, new.val)
            /\ src = out.mem
            /\ ValueAt(src, target) = new.val
            /\ Outside(src, target) = Outside(pre, target)
            /\ \A p \in Others(pre, target) : ValueAt(src, p) = ValueAt(pre, p)

C8_Witness ==
    /\ op.name = "modify" /\ op.arg = "add1" /\ out.kind = "ok"
    /\ ty = "Struct3" /\ Len(op.chain) = 3 /\ op.chain[3].field = "foo"
    /\ pre.inner.inner.foo = 42 /\ src.inner.inner.foo = 43
    /\ src.inner.inner.bar = 116 /\ pre.inner.inner.bar = 116

\* C9: get_ref, get_mut_ref, mutate and set through a lens whose vec lens has an
\* index past the end of the vector all fail: none returns, and the structure
\* (the vector's length included) is as it was before the call.
C9_OutOfBoundsFails ==
    (op.name \in {"get_ref", "get_mut_ref", "mutate", "set"} /\ OutOfBounds(op.chain, pre)) =>
        /\ out.kind # "ok"
        /\ src = pre

C9_Witness ==
    /\ op.name = "set" /\ ty = "Struct4" /\ Len(op.chain) = 3
    /\ OutOfBounds(op.chain, pre) /\ Len(pre.inner_vec) = 2 /\ out.kind = "panic"

\* C10 as stated: an out-of-bounds access returns an IndexOutOfRange error to
\* the caller instead of panicking.
C10_ReturnsIndexOutOfRange ==
    (op.name \in {"get_ref", "get_mut_ref", "mutate", "set"} /\ OutOfBounds(op.chain, pre)) =>
        /\ out.kind = "err"
        /\ out.error = "IndexOutOfRange"

\* C10 as amended: an out-of-bounds access panics: a reference read, and a
\* mutation that reaches the vector element by reference, with the panic of
\* unwrap on None; a mutation whose last lens is the vec lens with the panic of
\* the index operator.  No error value is returned.
C10_OutOfBoundsPanics ==
    (op.name \in {"get_ref", "get_mut_ref", "mutate", "set"} /\ OutOfBounds(op.chain, pre)) =>
        /\ out.kind = "panic"
        /\ out.msg = IF op.name \in {"mutate", "set"} /\ op.chain[Len(op.chain)].kind = "vec"
                     THEN PanicIndex ELSE PanicUnwrapNone

C10_Witness ==
    /\ op.name = "get_ref" /\ ty = "Vec<u8>" /\ Len(pre) = 1 /\ op.chain[1].index = 2
    /\ out.kind = "panic" /\ out.msg = PanicUnwrapNone

\* C11: set (and mutate) through any lens, vec lenses on the way included, either
\* returns the structure with the target replaced by the value and nothing else
\* changed, or fails with the structure exactly as it was before the call: a
\* failed call has written no part of it.
C11_NoPartialMutation ==
    op.name \in {"set", "mutate"} =>
        \/ /\ out.kind = "ok"
           /\ src = WriteAt(pre, ChainPlace(op.chain), op.arg)
           /\ ~OutOfBounds(op.chain, pre)
        \/ /\ out.kind = "panic"
           /\ out.mem = pre
           /\ src = pre
           /\ \A p \in Places(pre, ty) : ValueAt(src, p) = ValueAt(pre, p)

C11_Witness ==
    /\ op.name = "set" /\ out.kind = "panic" /\ ty = "Struct4" /\ Len(op.chain) = 3
    /\ Len(pre.inner_vec) = 1 /\ op.chain[2].index = 2
    /\ op.arg # 42 /\ src = pre

\* C19: a call through a lens in which some leaf lenses, or the composition
\* itself, are boxed has the result and the effect of the same call through
\* the composition of the unboxed lenses: the same path, the same outcome and
\* resulting structure for mutate, set and modify, the same reference for
\* get_ref and get_mut_ref and the same value for get.
C19_BoxedTransparent ==
    op.name # "new" =>
        LET plain == compose_lens(op.chain)
            place == ChainPlace(op.chain)
        IN  /\ op.name = "path" =>
                   /\ out = OkVal(path(plain))
                   /\ out.val.elements = [k \in 1..Len(op.chain) |-> [id |-> IdOf(op.chain[k])]]
            /\ op.name \in {"set", "mutate"} =>
                   /\ out = mutate(plain, pre, <<>>, op.arg)
                   /\ src = out.mem
                   /\ out.kind = "ok" => src = WriteAt(pre, place, op.arg)
            /\ op.name = "modify" =>
                   /\ out = modify(plain, pre, op.arg)
                   /\ src = out.mem
            /\ op.name = "get_ref" =>
                   /\ out.kind = get_ref(plain, pre, <<>>).kind
                   /\ out.kind = "ok" =>
                          /\ out.ref = get_ref(plain, pre, <<>>).ref
                          /\ out.ref = place
                          /\ out.val = ValueAt(pre, place)
                   /\ out.kind # "ok" => out = get_ref(plain, pre, <<>>)
            /\ op.name = "get_mut_ref" =>
                   /\ out.kind = get_mut_ref(plain, pre, <<>>).kind
                   /\ out.kind = "ok" => out.ref = get_mut_ref(plain, pre, <<>>).ref /\ out.ref = place
                   /\ out.kind # "ok" => out = get_mut_ref(plain, pre, <<>>)
            /\ op.name = "get" =>
                   /\ out = get(plain, pre, <<>>)
                   /\ out.kind = "ok" => out.val = ValueAt(pre, place)
            /\ op.name \in {"get_ref", "get_mut_ref", "get", "path"} => src = pre

C19_Witness ==
    /\ op.name = "set" /\ ty = "Struct3" /\ Len(op.chain) = 3 /\ op.boxes = {2, 3}
    /\ op.chain[3].field = "foo" /\ out.kind = "ok"
    /\ pre.inner.inner.foo = 42 /\ src.inner.inner.foo = 0
    /\ src.inner.baz = pre.inner.baz /\ src.inner.inner.bar = pre.inner.inner.bar

(***************************************************************************)
(* What the properties of transforms speak about: the leaf lenses a lens   *)
(* is made of, the place a transform's lens names, the mathematical value  *)
(* of a closure, and the transforms that leave the range of their type.    *)
(***************************************************************************)
RECURSIVE Flatten(_)
Flatten(l) ==
    CASE l.kind \in {"field", "vec"} -> <<l>>
      [] l.kind = "compose" -> Flatten(l.lhs) \o Flatten(l.rhs)
      [] l.kind = "box" -> Flatten(l.inner)

HasLens(tx) == tx.kind \in {"set_tx", "mod_tx", "increment_tx", "decrement_tx", "not_tx"}

TxPlace(tx) == ChainPlace(Flatten(tx.lens))

TxOutOfBounds(tx, s) == HasLens(tx) /\ OutOfBounds(Flatten(tx.lens), s)

Plain(f, x) ==
    CASE f = "add1" -> x + 1
      [] f = "sub1" -> x - 1
      [] f = "mul2" -> x * 2
      [] f = "add2" -> x + 2

InRange(t, w) == WideLeq(WideMin(t), w) /\ WideLeq(w, WideMax(t))

\* The target of the transform in s, as a wide number.
WideTarget(tx, s) == Wide(Target(tx.lens), ValueAt(s, TxPlace(tx)))

\* The arithmetic of the transform, applied to s, leaves the range of its type.
Overflows(tx, s) ==
    CASE tx.kind = "increment_tx" -> ~InRange(Target(tx.lens), WideAdd(WideTarget(tx, s), 1))
      [] tx.kind = "decrement_tx" -> ~InRange(Target(tx.lens), WideAdd(WideTarget(tx, s), -1))
      [] tx.kind = "mod_tx" -> ~InRange(Target(tx.lens), closure(tx.func, WideTarget(tx, s)))
      [] tx.kind = "fn_tx" -> ~InRange(tx.X, closure(tx.func, Wide(tx.X, s)))
      [] tx.kind = "set_tx" -> /\ tx.func.name = "foo_plus_42"
                               /\ ~InRange("i32", WideAdd(Wide("i32", s.foo), 42))
      [] OTHER -> FALSE

IndexPanics == {PanicIndex, PanicUnwrapNone}

\* One of the transforms of the sequence, applied in turn from x, meets a
\* vector too short for an index of its lens (an earlier transform may have
\* replaced the vector).
RECURSIVE SomeOutOfBounds(_, _)
SomeOutOfBounds(txs, x) ==
    IF txs = <<>> THEN FALSE
    ELSE \/ TxOutOfBounds(Head(txs), x)
         \/ LET first == apply(Head(txs), x) IN
            first.kind = "ok" /\ SomeOutOfBounds(Tail(txs), first.mem)

IsApply == op.name \in {"apply", "composed_tx", "left", "right", "compose_tx"}

\* C12 as stated: every apply returns a result unless an index of an underlying
\* vec lens is out of range; in particular increment_tx and decrement_tx return
\* a result at the maximum and the minimum of the target type.
C12_FailsOnlyOutOfRange ==
    (IsApply /\ out.kind # "ok") =>
        /\ out.msg \in IndexPanics
        /\ SomeOutOfBounds(op.parts, pre)

\* C12 as amended: apply returns a result unless an index of an underlying vec
\* lens is out of range for the vector the transform meets or, in a build
\* with overflow checks, the arithmetic of
\* the transform leaves the range of the target type (increment_tx at the
\* maximum, decrement_tx at the minimum, a closure that adds or multiplies):
\* then it panics.  Without overflow checks that arithmetic wraps around and
\* apply returns.
C12_FailsOnOutOfRangeOrOverflow ==
    /\ (IsApply /\ out.kind # "ok") =>
           /\ out.kind = "panic"
           /\ out.msg \in IndexPanics \cup (IF overflow_checks THEN {PanicOverflow} ELSE {})
           /\ out.msg \in IndexPanics => SomeOutOfBounds(op.parts, pre)
    /\ (IsApply /\ SomeOutOfBounds(op.parts, pre)) => out.kind = "panic"
    /\ op.name = "apply" =>
           LET tx == op.tx IN
           IF TxOutOfBounds(tx, pre) THEN out.kind = "panic" /\ out.msg \in IndexPanics
           ELSE IF Overflows(tx, pre)
                THEN IF overflow_checks THEN out.kind = "panic" /\ out.msg = PanicOverflow
                     ELSE /\ out.kind = "ok"
                          /\ tx.kind = "increment_tx" => ValueAt(src, TxPlace(tx)) = IntMin(Target(tx.lens))
                          /\ tx.kind = "decrement_tx" => ValueAt(src, TxPlace(tx)) = IntMax(Target(tx.lens))
                ELSE out.kind = "ok"

C12_Witness ==
    /\ op.name = "apply" /\ op.tx.kind = "increment_tx" /\ ty = "Struct1" /\ overflow_checks
    /\ TxPlace(op.tx) = <<FieldHop("bar")>> /\ pre.bar = IntMax("i16")
    /\ out.kind = "panic" /\ out.msg = PanicOverflow

\* The outcome of applying the transforms of a sequence one after the other,
\* first to last, stopping at the first that fails.
RECURSIVE InTurn(_, _)
InTurn(txs, x) ==
    IF txs = <<>> THEN OkMem(x)
    ELSE LET first == apply(Head(txs), x) IN
         IF first.kind # "ok" THEN first ELSE InTurn(Tail(txs), first.mem)

AddOneAddTwoMulTwo(t) == <<fn_tx("add1", t), fn_tx("add2", t), fn_tx("mul2", t)>>

\* C13: composed_tx(t1, t2).apply(x) is t2.apply(t1.apply(x)), and
\* compose_tx!(t1, t2, t3).apply(x) applies t1 first and t3 last: add 1, add 2,
\* multiply by 2 applied to 0 gives 6.
C13_ComposedInOrder ==
    /\ op.name = "composed_tx" =>
           LET mid == apply(op.parts[1], pre) IN
           /\ mid.kind = "ok" => out = apply(op.parts[2], mid.mem)
           /\ mid.kind # "ok" => out = mid
    /\ op.name = "compose_tx" =>
           /\ out = InTurn(op.parts, pre)
           /\ (op.parts = AddOneAddTwoMulTwo("u8") /\ pre = 0) => out = OkMem(6)

C13_Witness ==
    /\ op.name = "compose_tx" /\ ty = "u8" /\ op.parts = AddOneAddTwoMulTwo("u8")
    /\ pre = 0 /\ src = 6 /\ out.kind = "ok"

\* C14: composed_tx(composed_tx(t1, t2), t3).apply(x) and
\* composed_tx(t1, composed_tx(t2, t3)).apply(x) are the same outcome, that of
\* applying t1, t2 and t3 in turn.
C14_ComposedAssociative ==
    LET t1 == op.parts[1]
        t2 == op.parts[2]
        t3 == op.parts[3]
    IN  /\ op.name = "left" =>
               /\ out = apply(composed_tx(t1, composed_tx(t2, t3)), pre)
               /\ out = InTurn(op.parts, pre)
        /\ op.name = "right" =>
               /\ out = apply(composed_tx(composed_tx(t1, t2), t3), pre)
               /\ out = InTurn(op.parts, pre)

C14_Witness ==
    /\ op.name = "left" /\ ty = "Struct1" /\ out.kind = "ok"
    /\ op.parts[1].kind = "increment_tx" /\ op.parts[2].kind = "mod_tx" /\ op.parts[2].func = "add2"
    /\ op.parts[3].kind = "mod_tx" /\ op.parts[3].func = "mul2"
    /\ TxPlace(op.parts[1]) = <<FieldHop("foo")>>
    /\ pre.foo = 0 /\ src.foo = 6 /\ src.bar = pre.bar

\* C15: identity_tx().apply(x) is x, and composing a transform with the
\* identity on either side gives the outcome of the transform alone.
C15_Identity ==
    /\ (op.name = "apply" /\ op.tx.kind = "identity_tx") => out = OkMem(pre) /\ src = pre
    /\ (op.name = "composed_tx" /\ op.parts[1].kind = "identity_tx") => out = apply(op.parts[2], pre)
    /\ (op.name = "composed_tx" /\ op.parts[2].kind = "identity_tx") => out = apply(op.parts[1], pre)

C15_Witness ==
    /\ op.name = "composed_tx" /\ op.parts[1].kind = "identity_tx" /\ op.parts[2].kind = "decrement_tx"
    /\ ty = "Struct2" /\ out.kind = "ok" /\ TxPlace(op.parts[2]) = <<FieldHop("inner"), FieldHop("foo")>>
    /\ pre.inner.foo = 42 /\ src.inner.foo = 41

\* C16: set_tx(lens, f).apply(s) is lens.set(s, f(s)): f is given s as it was
\* before the set, old target and other fields included, and the target is
\* written with the value f returned.
C16_SetTxOnSourceBefore ==
    (op.name = "apply" /\ op.tx.kind = "set_tx") =>
        LET f == op.tx.func
            v == set_fn(f, pre)
        IN  /\ v.kind = "ok" => out = set(op.tx.lens, pre, v.val)
            /\ v.kind # "ok" => out.kind = "panic" /\ src = pre
            /\ out.kind = "ok" =>
                   /\ f.name = "foo_plus_42" =>
                          LET sum == WideAdd(Wide("i32", pre.foo), 42) IN
                          /\ InRange("i32", sum) => src = WriteAt(pre, TxPlace(op.tx), pre.foo + 42)
                          /\ ~InRange("i32", sum) =>
                                 src = WriteAt(pre, TxPlace(op.tx), Narrow("i32", wrap("i32", sum)))
                   /\ f.name = "bar_widened" => src = WriteAt(pre, TxPlace(op.tx), pre.bar)
                   /\ f.name = "len" => src = WriteAt(pre, TxPlace(op.tx), Len(pre))
                   /\ f.name = "const" => src = WriteAt(pre, TxPlace(op.tx), Consts(f.target)[f.k])

C16_Witness ==
    /\ op.name = "apply" /\ op.tx.kind = "set_tx" /\ op.tx.func.name = "foo_plus_42"
    /\ TxPlace(op.tx) = <<FieldHop("foo")>> /\ out.kind = "ok"
    /\ pre.foo = 42 /\ src.foo = 84 /\ src.bar = pre.bar

\* C17 as stated: for every lens with an integral target and every source s
\* whose target holds n, increment_tx(lens).apply(s) and
\* decrement_tx(lens).apply(s) return s with the target replaced by n + 1,
\* respectively n - 1 (the whole numbers), as mod_tx(lens, x -> x + 1) and
\* mod_tx(lens, x -> x - 1) do, and nothing outside the target changes.
C17_IncrementDecrement ==
    (op.name = "apply" /\ op.tx.kind \in {"increment_tx", "decrement_tx"} /\ ~TxOutOfBounds(op.tx, pre)) =>
        LET lens == op.tx.lens
            place == TxPlace(op.tx)
            inc == op.tx.kind = "increment_tx"
        IN  /\ out.kind = "ok"
            /\ out = apply(mod_tx(lens, IF inc THEN "add1" ELSE "sub1"), pre)
            /\ src = out.mem
            /\ Wide(Target(lens), ValueAt(src, place)) = WideAdd(WideTarget(op.tx, pre), IF inc THEN 1 ELSE -1)
            /\ Outside(src, place) = Outside(pre, place)
            /\ \A p \in Others(pre, place) : ValueAt(src, p) = ValueAt(pre, p)

\* C17 as amended: increment_tx(lens).apply(s) and decrement_tx(lens).apply(s)
\* have the outcome of mod_tx(lens, x -> x + 1) and mod_tx(lens, x -> x - 1).
\* When n + 1, respectively n - 1, is a value of the target type, they return
\* s with the target replaced by it.  At the maximum of the type (increment)
\* and at its minimum (decrement) the call panics in a build with overflow
\* checks, and without them returns s with the target at the minimum,
\* respectively the maximum.  When an index of the lens is out of range the
\* call panics.  Whenever it returns, nothing outside the target has changed.
C17_IncrementDecrementInType ==
    (op.name = "apply" /\ op.tx.kind \in {"increment_tx", "decrement_tx"}) =>
        LET lens == op.tx.lens
            T == Target(op.tx.lens)
            place == TxPlace(op.tx)
            inc == op.tx.kind = "increment_tx"
            next == WideAdd(WideTarget(op.tx, pre), IF inc THEN 1 ELSE -1)
            fits == InRange(T, next)
        IN  /\ out = apply(mod_tx(lens, IF inc THEN "add1" ELSE "sub1"), pre)
            /\ src = out.mem
            /\ TxOutOfBounds(op.tx, pre) => out.kind = "panic" /\ out.msg \in IndexPanics
            /\ (~TxOutOfBounds(op.tx, pre) /\ fits) =>
                   /\ out.kind = "ok"
                   /\ ValueAt(src, place) = Narrow(T, next)
                   /\ src = WriteAt(pre, place, Narrow(T, next))
            /\ (~TxOutOfBounds(op.tx, pre) /\ ~fits /\ overflow_checks) =>
                   out.kind = "panic" /\ out.msg = PanicOverflow
            /\ (~TxOutOfBounds(op.tx, pre) /\ ~fits /\ ~overflow_checks) =>
                   /\ out.kind = "ok"
                   /\ ValueAt(pre, place) = (IF inc THEN IntMax(T) ELSE IntMin(T))
                   /\ src = WriteAt(pre, place, IF inc THEN IntMin(T) ELSE IntMax(T))
            /\ out.kind = "ok" =>
                   /\ Outside(src, place) = Outside(pre, place)
                   /\ \A p \in Others(pre, place) : ValueAt(src, p) = ValueAt(pre, p)
            /\ out.kind # "ok" => src = pre

\* decrement_tx on Struct6.left = 0 without overflow checks: left becomes
\* 4294967295, the other fields stay.
C17_Witness ==
    /\ op.name = "apply" /\ op.tx.kind = "decrement_tx" /\ ty = "Struct6" /\ ~overflow_checks
    /\ TxPlace(op.tx) = <<FieldHop("left")>>
    /\ pre.left = u32(0) /\ out.kind = "ok" /\ src.left = IntMax("u32")
    /\ src.right = pre.right /\ src.left_enabled = pre.left_enabled

\* C18: not_tx(lens).apply(s) is s with the boolean target negated and every
\* other field unchanged.
C18_Negate ==
    (op.name = "apply" /\ op.tx.kind = "not_tx") =>
        LET place == TxPlace(op.tx) IN
        /\ out.kind = "ok"
        /\ src = out.mem
        /\ ValueAt(src, place) = ~ValueAt(pre, place)
        /\ Outside(src, place) = Outside(pre, place)
        /\ \A p \in Others(pre, place) : ValueAt(src, p) = ValueAt(pre, p)

C18_Witness ==
    /\ op.name = "apply" /\ op.tx.kind = "not_tx" /\ ty = "Struct6"
    /\ pre.left_enabled = FALSE /\ src.left_enabled = TRUE
    /\ src.left = pre.left /\ src.right = pre.right /\ pre.left = u32(1)

\* C20: get and get_ref take the structure by reference and change nothing:
\* after any number of reads the caller still holds the structure, equal to
\* what it was before them, every read that returns gives the value the lens
\* names in it, and reads through the same lens give the same outcome.
C20_ReadsHaveNoEffect ==
    /\ src = pre
    /\ \A i \in 1..Len(pin) :
           /\ pin[i].op.source = "usable"
           /\ pin[i].out.kind = "ok" => pin[i].out.val = ValueAt(pre, ChainPlace(pin[i].op.chain))
           /\ pin[i].out.kind # "ok" => OutOfBounds(pin[i].op.chain, pre)
    /\ \A i, j \in 1..Len(pin) :
           pin[i].op.chain = pin[j].op.chain =>
               /\ pin[i].out.kind = pin[j].out.kind
               /\ pin[i].out.kind = "ok" => pin[i].out.val = pin[j].out.val

C20_Witness ==
    /\ Len(pin) = 2 /\ pin[1].op.name = "get" /\ pin[2].op.name = "get_ref"
    /\ pin[1].op.chain = pin[2].op.chain /\ Len(pin[1].op.chain) = 3 /\ ty = "Struct3"
    /\ pin[1].out.val = 42 /\ pin[2].out.val = 42 /\ src = pre /\ src.inner.inner.foo = 42

(***************************************************************************)
(* A caller that writes several times: it owns one structure, keeps its    *)
(* lenses, and makes up to MaxWrites calls of set, mutate and modify, each *)
(* on the structure the call before returned.  After every call it asks    *)
(* each of its lenses (plain, and with boxed parts) for its path, and it   *)
(* keeps a log of the calls.                                               *)
(***************************************************************************)
MaxWrites == 2      \* writes per run

WriteTypes == {"Struct3", "Vec<u8>"}

\* The closure of the tests' modify calls that stays in range here.
WriteFns == {"add1"}

\* The lenses the caller holds for each chain: the plain composition, the
\* composition in a Box, and the composition of the boxed parts.
Held(t) == UNION {{<<c, b>> : b \in {{}, {0}, 1..Len(c)}} : c \in AllChains[t]}

\* lens.path() of every lens the caller holds for a structure of type t
LensPaths(t) == [cb \in Held(t) |-> path(BoxedLens(cb[1], cb[2]))]

AllLensPaths == [t \in WriteTypes |-> LensPaths(t)]

WriteInit ==
    /\ ty \in WriteTypes
    /\ src \in Values(ty)
    /\ pre = src
    /\ op = [name |-> "new"]
    /\ out = [kind |-> "ok"]
    /\ steps = 0
    /\ overflow_checks = TRUE
    /\ pin = <<>>
    /\ pout = AllLensPaths[ty]

CanWrite == Len(pin) < MaxWrites /\ out.kind = "ok"

Written(call, result) ==
    /\ pre' = src
    /\ op' = call
    /\ out' = result
    /\ src' = result.mem
    /\ pin' = Append(pin, [op |-> call, before |-> src, out |-> result, paths |-> AllLensPaths[ty]])
    /\ steps' = steps + 1
    /\ UNCHANGED <<ty, overflow_checks, pout>>

\* s = lens.set(s, v)
WriteSet ==
    CanWrite /\ \E chain \in Lenses : \E v \in Targets(TargetOf(chain)) :
        Written([name |-> "set", chain |-> chain, arg |-> v], set(compose_lens(chain), src, v))

\* lens.mutate(&mut s, v)
WriteMutate ==
    CanWrite /\ \E chain \in Lenses : \E v \in Targets(TargetOf(chain)) :
        Written([name |-> "mutate", chain |-> chain, arg |-> v], mutate(compose_lens(chain), src, <<>>, v))

\* s = modify(&lens, s, f)
WriteModify ==
    CanWrite /\ \E chain \in Lenses : \E f \in WriteFns :
        /\ IsInt(TargetOf(chain))
        /\ Written([name |-> "modify", chain |-> chain, arg |-> f], modify(compose_lens(chain), src, f))

WriteNext ==
    \/ WriteSet
    \/ WriteMutate
    \/ WriteModify

WriteSpec == WriteInit /\ [][WriteNext]_vars

\* The structure the run started from.
Initial == IF pin = <<>> THEN src ELSE pin[1].before

\* C21: a lens's path depends on the lens alone: the paths the caller's lenses
\* (field, vec, composed, with and without boxed parts) give after each set,
\* mutate and modify are those they gave before the first call, whatever the
\* structure, and each is the sequence of the indices of the lens's parts.
C21_PathStable ==
    /\ \A i \in 1..Len(pin) : pin[i].paths = pout
    /\ \A i, j \in 1..Len(pin) : pin[i].paths = pin[j].paths
    /\ \A cb \in DOMAIN pout :
           pout[cb].elements = [k \in 1..Len(cb[1]) |-> [id |-> IdOf(cb[1][k])]]

C21_Witness ==
    /\ Len(pin) = 2 /\ ty = "Struct3" /\ out.kind = "ok"
    /\ pin[1].op.name = "set" /\ pin[2].op.name = "modify"
    /\ Len(pin[1].op.chain) = 3 /\ pin[1].op.chain # pin[2].op.chain
    /\ src # Initial /\ pin[1].out.mem # Initial
    /\ pin[2].paths[<<pin[1].op.chain, {1, 2, 3}>>] = pout[<<pin[1].op.chain, {}>>]

(***************************************************************************)
(* The generators.  #[derive(Lenses)] (lens-derive) emits one lens per     *)
(* named field, and a constant _<Struct>Lenses that lists them; the        *)
(* attribute #[Lensed] of the compiler plugin (lens_macros) emits one lens *)
(* per named field that is not marked NoLens.  An identifier the code      *)
(* builds with format_ident! is kept as the name it is built around: the   *)
(* constant _<X>Lenses and the type <X>Lenses are named by X.              *)
(***************************************************************************)
\* The structures of the crate, each with the generator's attribute.
Declared == StructNames \cup {"Address", "Person", "Header", "Packet"}

\* The field names of the declared structures, in camel case.
to_camel_case(s) ==
    CASE s = "foo" -> "Foo"
      [] s = "bar" -> "Bar"
      [] s = "baz" -> "Baz"
      [] s = "inner" -> "Inner"
      [] s = "inner_vec" -> "InnerVec"
      [] s = "enabled" -> "Enabled"
      [] s = "left_enabled" -> "LeftEnabled"
      [] s = "left" -> "Left"
      [] s = "right" -> "Right"
      [] s = "street" -> "Street"
      [] s = "city" -> "City"
      [] s = "postcode" -> "Postcode"
      [] s = "name" -> "Name"
      [] s = "age" -> "Age"
      [] s = "address" -> "Address"
      [] s = "count" -> "Count"
      [] s = "header" -> "Header"
      [] s = "data" -> "Data"

\* derive_lens of the plugin: the lens of one field, with the index it was given.
derive_lens(struct_ident, field, field_index) ==
    [kind |-> "field", source |-> struct_ident, field |-> field.name, target |-> field.ty,
     field_index |-> field_index,
     value_lens |-> field.ty \in {"i32", "i64", "u32", "u64", "f32", "f64"}]

\* for (index, spanned_field) in struct_fields.iter().enumerate(): the fields
\* from position index on; a field marked NoLens is passed over.
RECURSIVE expand_fields(_, _, _, _)
expand_fields(struct_ident, struct_fields, no_lens, index) ==
    IF index >= Len(struct_fields) THEN <<>>
    ELSE (IF (index + 1) \in no_lens THEN <<>>
          ELSE <<derive_lens(struct_ident, struct_fields[index + 1], index)>>)
         \o expand_fields(struct_ident, struct_fields, no_lens, index + 1)

\* An expansion that numbers the lenses it emits instead of the fields it visits.
LensedDecorator_expand_renumbered(struct_ident, no_lens) ==
    LET pushed == expand_fields(struct_ident, StructFields(struct_ident), no_lens, 0)
    IN  [k \in 1..Len(pushed) |-> [pushed[k] EXCEPT !.field_index = k - 1]]

\* #[Lensed] on a structure whose fields at the positions no_lens are marked NoLens
LensedDecorator_expand(struct_ident, no_lens) ==
    expand_fields(struct_ident, StructFields(struct_ident), no_lens, 0)

\* lenses_const_fields: for each field, the member <field> holding the field's
\* lens and, unless the field's type is primitive, the member <field>_lenses
\* holding the constant _<CamelCase(field)>Lenses.
lenses_const(struct_name) ==
    LET fields == StructFields(struct_name) IN
    [k \in 1..Len(fields) |->
        [field_name |-> fields[k].name,
         field_lens |-> lenses_derive(struct_name)[k],
         field_parent_lenses |->
             IF is_primitive(fields[k].ty) THEN <<>> ELSE <<to_camel_case(fields[k].name)>>]]

\* The expansion of #[derive(Lenses)] compiles when every constant and type it
\* names exists, that is, when it is the one generated for a declared structure.
Compiles(struct_name) ==
    \A k \in 1..Len(StructFields(struct_name)) :
        \A x \in {lenses_const(struct_name)[k].field_parent_lenses[i] :
                     i \in 1..Len(lenses_const(struct_name)[k].field_parent_lenses)} : x \in Declared

CompileError == [kind |-> "compile_error"]

\* The member of the constant _<x>Lenses that a field name selects.
Member(x, field_name) ==
    LET found == SelectSeq(lenses_const(x), LAMBDA m : m.field_name = field_name)
    IN  IF x \in Declared /\ Compiles(x) /\ found # <<>> THEN <<found[1]>> ELSE <<>>

\* base_lens_expr after following the members <field>_lenses of parts[2..upto]:
\* the name of the constant reached, or none.
RECURSIVE base_lens_expr(_, _)
base_lens_expr(lens_parts, upto) ==
    IF upto = 1 THEN <<lens_parts[1]>>
    ELSE LET prev == base_lens_expr(lens_parts, upto - 1) IN
         IF prev = <<>> THEN <<>>
         ELSE LET m == Member(prev[1], lens_parts[upto]) IN
              IF m = <<>> THEN <<>> ELSE m[1].field_parent_lenses

\* lens!(Struct.a.b.c): compose_lens!(_StructLenses.a, _StructLenses.a_lenses.b,
\* _StructLenses.a_lenses.b_lenses.c), each composition type-checked
\* (RHS: Lens<Source = LHS::Target>).
lens(lens_parts) ==
    LET lens_exprs ==
            [i \in 2..Len(lens_parts) |->
                LET base == base_lens_expr(lens_parts, i - 1) IN
                IF base = <<>> THEN <<>> ELSE Member(base[1], lens_parts[i])]
        typed == \A i \in 2..Len(lens_parts) :
                     /\ lens_exprs[i] # <<>>
                     /\ i > 2 => (lens_exprs[i - 1] # <<>>
                                  /\ lens_exprs[i - 1][1].field_lens.target = lens_exprs[i][1].field_lens.source)
    IN  IF Len(lens_parts) < 2 \/ ~typed THEN CompileError
        ELSE [kind |-> "ok",
              lens |-> compose_lens([k \in 1..(Len(lens_parts) - 1) |-> lens_exprs[k + 1][1].field_lens])]

(***************************************************************************)
(* A crate author: declares one of the structures, with some fields marked *)
(* NoLens when the plugin is used, lets a generator expand it, and then    *)
(* asks a generated lens for its path or writes a lens! expression.        *)
(***************************************************************************)
GenInit ==
    /\ ty \in Declared
    /\ src \in [name : {ty}, no_lens : SUBSET (1..Len(StructFields(ty)))]
    /\ pre = src
    /\ op = [name |-> "new"]
    /\ out = [kind |-> "ok"]
    /\ steps = 0
    /\ overflow_checks = TRUE
    /\ pin = <<>>
    /\ pout = LensPath_empty

\* #[derive(Lenses)] struct ...
Derive ==
    /\ FirstCall /\ src.no_lens = {}
    /\ op' = [name |-> "derive"]
    /\ out' = [kind |-> IF Compiles(ty) THEN "ok" ELSE "compile_error",
               lenses |-> lenses_derive(ty), lenses_const |-> lenses_const(ty)]
    /\ steps' = steps + 1
    /\ UNCHANGED <<ty, src, pre, overflow_checks, pin, pout>>

\* #[Lensed] struct ...
Expand ==
    /\ FirstCall
    /\ op' = [name |-> "Lensed"]
    /\ out' = [kind |-> "ok", lenses |-> LensedDecorator_expand(ty, src.no_lens)]
    /\ steps' = steps + 1
    /\ UNCHANGED <<ty, src, pre, overflow_checks, pin, pout>>

\* <Struct><Field>Lens.path()
AccessorPath ==
    /\ op.name \in {"derive", "Lensed"}
    /\ \E k \in 1..Len(out.lenses) :
           /\ op' = [name |-> "path", by |-> op.name, k |-> k]
           /\ pout' = path(out.lenses[k])
    /\ steps' = steps + 1
    /\ UNCHANGED <<ty, src, pre, out, overflow_checks, pin>>

\* The field-access expressions an author can write from a structure.
RECURSIVE FieldAccesses(_, _)
FieldAccesses(t, depth) ==
    IF depth = 0 \/ t \notin Declared THEN {}
    ELSE LET fields == StructFields(t) IN
         UNION {{<<fields[k].name>>} \cup {<<fields[k].name>> \o a : a \in FieldAccesses(fields[k].ty, depth - 1)} :
                   k \in 1..Len(fields)}

AllFieldAccesses == [t \in Declared |-> FieldAccesses(t, MaxDepth)]

\* lens!(Struct.a.b) in a crate where every structure derives Lenses
ResolveLens ==
    /\ op.name = "derive"
    /\ \E a \in AllFieldAccesses[ty] :
           /\ op' = [name |-> "lens", parts |-> <<ty>> \o a]
           /\ out' = lens(<<ty>> \o a)
    /\ steps' = steps + 1
    /\ UNCHANGED <<ty, src, pre, overflow_checks, pin, pout>>

GenNext ==
    \/ Derive
    \/ Expand
    \/ AccessorPath
    \/ ResolveLens

GenSpec == GenInit /\ [][GenNext]_vars

\* The declared position (zero-based) of a field of the structure.
DeclaredIndex(field_name) ==
    CHOOSE i \in 0..(Len(StructFields(ty)) - 1) : StructFields(ty)[i + 1].name = field_name

Generated == op.name \in {"derive", "Lensed"}

\* C22: the accessor generated for the k-th declared field (zero-based) has the
\* one-element path [k], by either generator; the paths of the accessors of one
\* structure are pairwise distinct; the plugin generates an accessor for each
\* field not marked NoLens, and a field marked NoLens leaves the index of every
\* other field what it is without the mark.
C22_FieldIndexPaths ==
    /\ Generated =>
           /\ \A k \in 1..Len(out.lenses) :
                  path(out.lenses[k]) = LensPath_new(DeclaredIndex(out.lenses[k].field))
           /\ \A j, k \in 1..Len(out.lenses) : j # k => path(out.lenses[j]) # path(out.lenses[k])
    /\ op.name = "derive" =>
           /\ Len(out.lenses) = Len(StructFields(ty))
           /\ \A k \in 1..Len(out.lenses) : out.lenses[k].field = StructFields(ty)[k].name
    /\ op.name = "Lensed" =>
           /\ {out.lenses[k].field : k \in 1..Len(out.lenses)}
                  = {StructFields(ty)[k].name : k \in (1..Len(StructFields(ty))) \ src.no_lens}
           /\ \A k \in 1..Len(out.lenses) :
                  \E j \in 1..Len(StructFields(ty)) :
                      /\ LensedDecorator_expand(ty, {})[j].field = out.lenses[k].field
                      /\ path(LensedDecorator_expand(ty, {})[j]) = path(out.lenses[k])
    /\ op.name = "path" =>
           \E k \in 0..(Len(StructFields(ty)) - 1) :
               pout.elements = <<[id |-> k]>> /\ StructFields(ty)[k + 1].name = out.lenses[op.k].field

C22_Witness ==
    /\ op.name = "path" /\ op.by = "Lensed" /\ ty = "Struct6" /\ src.no_lens = {1, 2}
    /\ out.lenses[op.k].field = "right" /\ pout = LensPath_new(2) /\ Len(out.lenses) = 1

\* The field of the structure that an expression Struct.field names.
FieldOf(t, field_name) ==
    LET found == SelectSeq(StructFields(t), LAMBDA f : f.name = field_name) IN found[1]

\* C26 as stated: for every field whose type is a structure with generated
\* accessors, the expansion of the derive compiles and the member
\* <field>_lenses of the parent's accessor group is the accessor group of the
\* field's type; lens!(Parent.field.subfield) is the composition of Parent's
\* accessor for the field with the field type's accessor for the subfield,
\* whatever the field is named.
C26_NestedGroups ==
    /\ op.name = "derive" =>
           \A k \in 1..Len(StructFields(ty)) :
               StructFields(ty)[k].ty \in Declared =>
                   /\ out.kind = "ok"
                   /\ out.lenses_const[k].field_lens = lenses_derive(ty)[k]
                   /\ out.lenses_const[k].field_parent_lenses = <<StructFields(ty)[k].ty>>
    /\ (op.name = "lens" /\ Len(op.parts) = 3) =>
           LET field == FieldOf(ty, op.parts[2]) IN
           /\ out.kind = "ok"
           /\ out.lens = compose(lenses_derive(ty)[DeclaredIndex(op.parts[2]) + 1],
                                 SelectSeq(lenses_derive(field.ty), LAMBDA l : l.field = op.parts[3])[1])

(***************************************************************************)
(* A caller that reuses a transform: it builds one transform (a single one *)
(* or a pipeline of three by compose_tx!) and applies it up to MaxApplies  *)
(* times, to the output of the application before or to a copy of the      *)
(* value it started from, keeping a log of the applications.               *)
(***************************************************************************)
MaxApplies == 2     \* applications per run

CanApply == 0 < Len(pin) /\ Len(pin) < MaxApplies /\ out.kind = "ok"

\* let p = tx.apply(input)
Reused(call, input) ==
    LET r == apply(call.tx, input) IN
    /\ pre' = input
    /\ op' = call
    /\ out' = r
    /\ src' = r.mem
    /\ pin' = Append(pin, [before |-> input, out |-> r])
    /\ steps' = steps + 1
    /\ UNCHANGED <<ty, overflow_checks, pout>>

\* let tx = ...; let p1 = tx.apply(p0)
ApplyFirst ==
    FirstCall /\ \E tx \in AllTxs[ty] : Reused([name |-> "apply", tx |-> tx, parts |-> <<tx>>], src)

\* let tx = compose_tx!(t1, t2, t3); let p1 = tx.apply(p0)
ApplyFirstPipeline ==
    FirstCall /\ \E p \in AllPipelines[ty] :
        Reused([name |-> "compose_tx", tx |-> compose_tx(p), parts |-> p], src)

\* let p2 = tx.apply(p1)
ApplyToOutput == CanApply /\ Reused(op, src)

\* let q = tx.apply(p0.clone())
ApplyToCopy == CanApply /\ Reused(op, pin[1].before)

ReuseNext ==
    \/ ApplyFirst
    \/ ApplyFirstPipeline
    \/ ApplyToOutput
    \/ ApplyToCopy

ReuseSpec == TxInit /\ [][ReuseNext]_vars

IncAddTwoMulTwo(l) == <<increment_tx(l), mod_tx(l, "add2"), mod_tx(l, "mul2")>>

\* lens!(Packet.header.count)
count_lens == compose_lens(<<lenses_derive("Packet")[1], lenses_derive("Header")[1]>>)

\* C23: a transform built once gives at every application the outcome that
\* belongs to its input alone: equal inputs give equal outcomes whatever was
\* applied before, applying it to its own output gives what composed_tx(tx, tx)
\* gives on the first input, and the pipeline +1, +2, *2 on a counter takes 0
\* to 6 and then 6 to 18.
C23_TransformsReusable ==
    /\ \A i \in 1..Len(pin) : pin[i].out = InTurn(op.parts, pin[i].before)
    /\ \A i, j \in 1..Len(pin) : pin[i].before = pin[j].before => pin[i].out = pin[j].out
    /\ \A i \in 2..Len(pin) :
           (pin[i - 1].out.kind = "ok" /\ pin[i].before = pin[i - 1].out.mem) =>
               /\ pin[i].out = apply(composed_tx(compose_tx(op.parts), compose_tx(op.parts)), pin[i - 1].before)
               /\ pin[i].out = InTurn(op.parts \o op.parts, pin[i - 1].before)
    /\ \A i \in 1..Len(pin) :
           (ty = "Struct1" /\ op.parts = IncAddTwoMulTwo(lenses_derive("Struct1")[1])) =>
               /\ pin[i].before.foo = 0 => pin[i].out = OkMem([pin[i].before EXCEPT !.foo = 6])
               /\ pin[i].before.foo = 6 => pin[i].out = OkMem([pin[i].before EXCEPT !.foo = 18])
    /\ \A i \in 1..Len(pin) :
           (ty = "Packet" /\ op.parts = IncAddTwoMulTwo(count_lens)) =>
               /\ pin[i].before.header.count = 0 =>
                      pin[i].out = OkMem([pin[i].before EXCEPT !.header.count = 6])
               /\ pin[i].before.header.count = 6 =>
                      pin[i].out = OkMem([pin[i].before EXCEPT !.header.count = 18])

C23_Witness ==
    /\ Len(pin) = 2 /\ ty = "Packet" /\ op.name = "compose_tx"
    /\ op.parts = IncAddTwoMulTwo(count_lens)
    /\ pin[1].before = [header |-> [count |-> 0], data |-> <<>>]
    /\ pin[1].out.mem.header.count = 6
    /\ pin[2].before = pin[1].out.mem /\ pin[2].out.kind = "ok" /\ src.header.count = 18
    /\ src.data = <<>>

(***************************************************************************)
(* Two callers sharing one descriptor.  Each owns a structure and makes    *)
(* one call through the shared lens (set) or the shared transform (apply); *)
(* the calls run one step at a time, in any interleaving.  A step of set   *)
(* through compose_lens!(l1, ..., ln) is one get_mut_ref of a part or the  *)
(* final mutate; a step of apply of compose_tx!(t1, ..., tn) is the apply  *)
(* of one part.  Per caller: src is the call's own value, pin the          *)
(* reference the call holds, steps the number of steps taken, out the      *)
(* outcome once the call has ended.                                        *)
(***************************************************************************)
Callers == {1, 2}

Running == [kind |-> "running"]

ConcTypes == {"Struct1", "Struct3", "Struct4"}

\* The structures the two callers own.
ConcValues(t) ==
    CASE t = "Struct1" -> [foo : I32Vals, bar : {IntMax("i16")}]
      [] t = "Struct3" -> Struct3Vals
      [] t = "Struct4" -> [inner_vec : VecVals({[foo |-> 42, bar |-> 73]})]

\* The shared descriptor, with the target each caller passes to set.
ConcCalls(t) ==
    IF t = "Struct1"
    THEN {[name |-> "apply", parts |-> p] : p \in AllPipelines[t]}
    ELSE UNION {{[name |-> "set", chain |-> c, args |-> <<a, b>>] :
                    a \in Targets(TargetOf(c)), b \in Targets(TargetOf(c))} : c \in AllChains[t]}

AllConcCalls == [t \in ConcTypes |-> ConcCalls(t)]

ConcInit ==
    /\ ty \in ConcTypes
    /\ pre \in {<<a, b>> : a \in ConcValues(ty), b \in ConcValues(ty)}
    /\ src = pre
    /\ op \in AllConcCalls[ty]
    /\ out = <<Running, Running>>
    /\ steps = <<0, 0>>
    /\ overflow_checks \in BOOLEAN
    /\ pin = <<<<>>, <<>>>>
    /\ pout = NoResults

\* A set that works on a value shared by all calls instead of its own.
mutable_source_shared(c) == src[1]

\* let mut mutable_source = source: the value the call of caller c works on
mutable_source(c) == src[c]

\* let rhs_source = self.lhs.get_mut_ref(source): the reference the call holds
rhs_source(c) == pin[c]

\* self.lhs.apply(input): the value the call of caller c passes on
input(c) == src[c]

\* ComposedLens::mutate, first half: let rhs_source = self.lhs.get_mut_ref(source)
Navigate(c) ==
    /\ op.name = "set" /\ out[c].kind = "running" /\ steps[c] + 1 < Len(op.chain)
    /\ LET g == get_mut_ref(op.chain[steps[c] + 1], mutable_source(c), rhs_source(c)) IN
       IF g.kind = "ok"
       THEN /\ pin' = [pin EXCEPT ![c] = g.ref]
            /\ UNCHANGED <<out, src>>
       ELSE /\ out' = [out EXCEPT ![c] = PanicMem(g.msg, mutable_source(c))]
            /\ src' = [src EXCEPT ![c] = mutable_source(c)]
            /\ UNCHANGED pin
    /\ steps' = [steps EXCEPT ![c] = steps[c] + 1]
    /\ UNCHANGED <<ty, pre, op, overflow_checks, pout>>

\* The last lens's mutate(rhs_source, target), after which set returns mutable_source
Assign(c) ==
    /\ op.name = "set" /\ out[c].kind = "running" /\ steps[c] + 1 = Len(op.chain)
    /\ LET r == mutate(op.chain[steps[c] + 1], mutable_source(c), rhs_source(c), op.args[c]) IN
       /\ src' = [src EXCEPT ![c] = r.mem]
       /\ out' = [out EXCEPT ![c] = r]
    /\ steps' = [steps EXCEPT ![c] = steps[c] + 1]
    /\ UNCHANGED <<ty, pre, op, overflow_checks, pin, pout>>

\* ComposedTransform::apply: the apply of the next part on what the last one returned
ApplyPart(c) ==
    /\ op.name = "apply" /\ out[c].kind = "running" /\ steps[c] < Len(op.parts)
    /\ LET r == apply(op.parts[steps[c] + 1], input(c)) IN
       /\ src' = [src EXCEPT ![c] = r.mem]
       /\ out' = [out EXCEPT ![c] = IF r.kind = "ok" /\ steps[c] + 1 < Len(op.parts) THEN Running ELSE r]
    /\ steps' = [steps EXCEPT ![c] = steps[c] + 1]
    /\ UNCHANGED <<ty, pre, op, overflow_checks, pin, pout>>

NavigateStep == \E c \in Callers : Navigate(c)

AssignStep == \E c \in Callers : Assign(c)

ApplyPartStep == \E c \in Callers : ApplyPart(c)

ConcNext ==
    \/ NavigateStep
    \/ AssignStep
    \/ ApplyPartStep

ConcSpec == ConcInit /\ [][ConcNext]_vars

\* The outcome of caller c's call when it runs alone.
Alone(c) ==
    IF op.name = "set" THEN set(compose_lens(op.chain), pre[c], op.args[c])
    ELSE apply(compose_tx(op.parts), pre[c])

\* C24: when two callers share one lens or one transform and each runs set or
\* apply on its own structure, in every interleaving of the steps each call
\* ends with the outcome it has when run alone, and until then holds what it
\* holds after as many steps alone: its structure untouched and the reference
\* reached so far (set), the value its parts applied so far give (apply).
C24_SharedDescriptorSafe ==
    \A c \in Callers :
        /\ out[c].kind # "running" => out[c] = Alone(c) /\ src[c] = Alone(c).mem
        /\ (out[c].kind = "running" /\ op.name = "set") =>
               /\ src[c] = pre[c]
               /\ pin[c] = ChainPlace(SubSeq(op.chain, 1, steps[c]))
        /\ (out[c].kind = "running" /\ op.name = "apply") =>
               InTurn(SubSeq(op.parts, 1, steps[c]), pre[c]) = OkMem(src[c])

C24_Witness ==
    /\ ty = "Struct3" /\ Len(op.chain) = 3 /\ op.args[1] # op.args[2]
    /\ pre[1] # pre[2] /\ pre[1].inner.inner = pre[2].inner.inner
    /\ steps = <<2, 3>> /\ out[1].kind = "running" /\ out[2].kind = "ok"
    /\ src[2] # pre[2] /\ src[1] = pre[1] /\ src[2] # pre[1]

\* The calls of the log made through a vec lens on the vector itself, with an
\* index inside the vector.
InRangeVecCalls ==
    {i \in 1..Len(pin) : /\ Len(pin[i].op.chain) = 1
                         /\ pin[i].op.chain[1].kind = "vec"
                         /\ pin[i].op.chain[1].index < Len(pin[i].before)}

\* C25: vec_lens(i).set(v, x) and modify(vec_lens(i), v, f) with i < len(v)
\* return a vector of the length of v that equals v at every position other
\* than i (and holds x, or f of the old element, at i); after any sequence of
\* such calls the vector has the length it started with.
C25_VecLensWritesOneElement ==
    ty = "Vec<u8>" =>
        /\ \A i \in InRangeVecCalls :
               LET v == pin[i].before
                   w == pin[i].out.mem
                   index == pin[i].op.chain[1].index
               IN  /\ pin[i].out.kind = "ok"
                   /\ Len(w) = Len(v)
                   /\ \A k \in 1..Len(v) : k # index + 1 => w[k] = v[k]
                   /\ pin[i].op.name \in {"set", "mutate"} => w[index + 1] = pin[i].op.arg
                   /\ pin[i].op.name = "modify" => w[index + 1] = Plain(pin[i].op.arg, v[index + 1])
        /\ InRangeVecCalls = 1..Len(pin) => out.kind = "ok" /\ Len(src) = Len(Initial)
        /\ \A i \in (1..Len(pin)) \ InRangeVecCalls : pin[i].out.kind = "panic"

C25_Witness ==
    /\ ty = "Vec<u8>" /\ Len(pin) = 2 /\ InRangeVecCalls = {1, 2}
    /\ pin[1].op.name = "set" /\ pin[1].op.chain[1].index = 1 /\ pin[1].op.arg = 42
    /\ pin[2].op.name = "modify" /\ pin[2].op.chain[1].index = 0
    /\ Initial = <<0, 0>> /\ src = <<1, 42>>

\* The leaf fields of a structure: its places that hold no further place.
Leaves(s) == {p \in Places(s, ty) : \A q \in Places(s, ty) : IsPrefix(p, q) => q = p}

\* The sets of the log whose lens targets the place p or a structure holding it.
SetsOver(p) == {i \in 1..Len(pin) : IsPrefix(ChainPlace(pin[i].op.chain), p)}

Last(S) == CHOOSE i \in S : \A j \in S : j <= i

AllSets == \A i \in 1..Len(pin) : pin[i].op.name = "set" /\ pin[i].out.kind = "ok"

\* C27: after any sequence of successful sets through field lenses and their
\* compositions, each leaf field holds what the most recent set whose lens
\* targets it (the field itself or a structure holding it) put there, or its
\* initial value if no set targeted it; and set(set(s, v1), v2) through one
\* lens is set(s, v2).
C27_LastWriteWins ==
    (ty = "Struct3" /\ AllSets) =>
        /\ \A p \in Leaves(src) :
               IF SetsOver(p) = {} THEN ValueAt(src, p) = ValueAt(Initial, p)
               ELSE LET last == pin[Last(SetsOver(p))]
                        place == ChainPlace(last.op.chain)
                    IN  ValueAt(src, p) = ValueAt(last.op.arg, SubSeq(p, Len(place) + 1, Len(p)))
        /\ \A i \in 2..Len(pin) :
               pin[i].op.chain = pin[i - 1].op.chain =>
                   pin[i].out = set(compose_lens(pin[i].op.chain), pin[i - 1].before, pin[i].op.arg)

C27_Witness ==
    /\ ty = "Struct3" /\ AllSets /\ Len(pin) = 2
    /\ ChainPlace(pin[1].op.chain) = <<FieldHop("inner"), FieldHop("inner"), FieldHop("foo")>>
    /\ ChainPlace(pin[2].op.chain) = <<FieldHop("inner"), FieldHop("inner"), FieldHop("foo")>>
    /\ Initial.inner.inner.foo = 42 /\ pin[1].op.arg = 0 /\ pin[2].op.arg = 42
    /\ pin[1].out.mem.inner.inner.foo = 0 /\ src = Initial

(***************************************************************************)
(* A caller that compares: it owns one structure and makes one compound    *)
(* call on it: a set of what it has just read (or a modify by the identity *)
(* closure), two writes through two lenses in one order and in the other,  *)
(* or one call through a composition of three lenses nested to the left or *)
(* to the right.                                                           *)
(***************************************************************************)
\* compose(compose(a, b), c): the composition nested to the left
RECURSIVE left_nested(_)
left_nested(chain) ==
    IF Len(chain) = 1 THEN chain[1]
    ELSE compose(left_nested(SubSeq(chain, 1, Len(chain) - 1)), chain[Len(chain)])

Nested(chain, nesting) == IF nesting = "left" THEN left_nested(chain) ELSE compose_lens(chain)

Nestings == {"left", "right"}

\* The value a caller reads through a lens to pass it on: lens.get(&s) for a
\* value lens, lens.get_ref(&s).clone() otherwise.
Fetch(l, s) ==
    IF IsValueLens(l) THEN get(l, s, <<>>)
    ELSE LET g == get_ref(l, s, <<>>) IN
         IF g.kind = "ok" THEN OkVal(ValueAt(s, g.ref)) ELSE g

Compared(call, result) ==
    /\ pre' = src
    /\ op' = call
    /\ out' = result
    /\ steps' = steps + 1
    /\ UNCHANGED <<ty, overflow_checks, pin, pout>>

\* let v = lens.get(&s); let s1 = lens.set(s, v)
SetGet ==
    FirstCall /\ \E chain \in Lenses :
        LET l == compose_lens(chain)
            v == Fetch(l, src)
            r == IF v.kind = "ok" THEN set(l, src, v.val) ELSE PanicMem(v.msg, src)
        IN  Compared([name |-> "set_get", chain |-> chain, read |-> v.kind], r) /\ src' = r.mem

\* let s1 = modify(&lens, s, |a| a.clone())
ModifyIdentity ==
    FirstCall /\ \E chain \in Lenses :
        LET r == modify(compose_lens(chain), src, "id")
        IN  Compared([name |-> "modify_id", chain |-> chain], r) /\ src' = r.mem

\* The outcome of a set through l of what a first call returned.
ThenSet(first, l, v) == IF first.kind = "ok" THEN set(l, first.mem, v) ELSE first

\* a.set(b.set(s, vb), va) and b.set(a.set(s, va), vb), each on its own copy of s
SetBoth ==
    FirstCall /\ \E A \in Lenses, B \in Lenses :
        \E va \in Targets(TargetOf(A)), vb \in Targets(TargetOf(B)) :
            LET a == compose_lens(A)
                b == compose_lens(B)
                ab == ThenSet(set(b, src, vb), a, va)
                ba == ThenSet(set(a, src, va), b, vb)
            IN  /\ Compared([name |-> "set_both", chain |-> A, other |-> B, arg |-> va, other_arg |-> vb],
                            [kind |-> "ok", ab |-> ab, ba |-> ba])
                /\ src' = ab.mem

\* The set_tx and mod_tx transforms a caller builds over a lens.
LawTxs(t, l) ==
    {set_tx(l, f) : f \in SetFns(t, Target(l))}
    \cup {mod_tx(l, f) : f \in {g \in Fns : IsInt(Target(l))}}

\* composed_tx(tb, ta).apply(s) and composed_tx(ta, tb).apply(s), each on its own copy of s
ApplyBoth ==
    FirstCall /\ \E A \in Lenses, B \in Lenses :
        \E ta \in LawTxs(ty, compose_lens(A)), tb \in LawTxs(ty, compose_lens(B)) :
            LET ab == apply(composed_tx(tb, ta), src)
                ba == apply(composed_tx(ta, tb), src)
            IN  /\ Compared([name |-> "apply_both", chain |-> A, other |-> B, tx |-> ta, other_tx |-> tb],
                            [kind |-> "ok", ab |-> ab, ba |-> ba])
                /\ src' = ab.mem

\* The chains of three or more lenses, which can be nested in more than one way.
Nestable == {c \in Lenses : Len(c) >= 3}

\* compose(compose(a, b), c).set(s, v) or compose(a, compose(b, c)).set(s, v)
NestedSet ==
    FirstCall /\ \E chain \in Nestable, n \in Nestings : \E v \in Targets(TargetOf(chain)) :
        LET r == set(Nested(chain, n), src, v)
        IN  Compared([name |-> "nested_set", chain |-> chain, nesting |-> n, arg |-> v], r) /\ src' = r.mem

\* *compose(compose(a, b), c).get_ref(&s)
NestedGetRef ==
    FirstCall /\ \E chain \in Nestable, n \in Nestings :
        /\ Compared([name |-> "nested_get_ref", chain |-> chain, nesting |-> n],
                    Read(get_ref(Nested(chain, n), src, <<>>)))
        /\ UNCHANGED src

\* compose(compose(a, b), c).get(&s)
NestedGet ==
    FirstCall /\ \E chain \in Nestable, n \in Nestings :
        /\ IsValueLens(Nested(chain, n))
        /\ Compared([name |-> "nested_get", chain |-> chain, nesting |-> n], get(Nested(chain, n), src, <<>>))
        /\ UNCHANGED src

\* compose(compose(a, b), c).path()
NestedPath ==
    FirstCall /\ \E chain \in Nestable, n \in Nestings :
        /\ Compared([name |-> "nested_path", chain |-> chain, nesting |-> n], OkVal(path(Nested(chain, n))))
        /\ UNCHANGED src

LawNext ==
    \/ SetGet
    \/ ModifyIdentity
    \/ SetBoth
    \/ ApplyBoth
    \/ NestedSet
    \/ NestedGetRef
    \/ NestedGet
    \/ NestedPath

LawSpec == Init /\ [][LawNext]_vars

\* C28: setting what is already there changes nothing: for every lens and
\* every structure s on which the read through it succeeds, set(s, get(s)) is
\* s, and so is modify(lens, s, identity); where the read fails so do both.
C28_SetGet ==
    /\ op.name = "set_get" =>
           /\ ~OutOfBounds(op.chain, pre) =>
                  /\ op.read = "ok"
                  /\ out = OkMem(pre)
                  /\ src = pre
                  /\ modify(TheLens, pre, "id") = out
           /\ OutOfBounds(op.chain, pre) => op.read = "panic" /\ out.kind = "panic"
    /\ op.name = "modify_id" =>
           /\ ~OutOfBounds(op.chain, pre) => out = OkMem(pre) /\ src = pre
           /\ OutOfBounds(op.chain, pre) => out.kind = "panic"

C28_Witness ==
    /\ op.name = "set_get" /\ ty = "Struct3" /\ Len(op.chain) = 3 /\ op.chain[3].field = "foo"
    /\ IsValueLens(TheLens) /\ op.read = "ok" /\ out.kind = "ok"
    /\ pre.inner.inner.foo = 42 /\ src.inner.inner.foo = 42 /\ src = pre

\* Two lenses on one source type whose paths are not equal and neither of
\* which is a prefix of the other.
DisjointPaths(a, b) ==
    LET pa == path(a).elements
        pb == path(b).elements
    IN  pa # pb /\ ~IsPrefix(pa, pb) /\ ~IsPrefix(pb, pa)

\* The function of the transform reads nothing but the transform's target.
ReadsOwnTarget(tx) ==
    \/ tx.kind = "mod_tx"
    \/ tx.kind = "set_tx" /\ tx.func.name = "const"
    \/ tx.kind = "set_tx" /\ tx.func.name = "foo_plus_42" /\ TxPlace(tx) = <<FieldHop("foo")>>

\* C29: writes to disjoint locations commute: for lenses A and B with disjoint
\* paths, setA(setB(s, b), a) and setB(setA(s, a), b) both fail or both return
\* the same structure, s with a at A's place and b at B's; the same holds for
\* set_tx and mod_tx transforms over A and B, whose functions read only their
\* own target, composed in either order.
C29_DisjointWritesCommute ==
    /\ (op.name = "set_both" /\ DisjointPaths(TheLens, compose_lens(op.other))) =>
           /\ out.ab.kind = out.ba.kind
           /\ out.ab.kind = "ok" =>
                  /\ out.ab.mem = out.ba.mem
                  /\ out.ab.mem = WriteAt(WriteAt(pre, ChainPlace(op.chain), op.arg),
                                          ChainPlace(op.other), op.other_arg)
           /\ out.ab.kind # "ok" <=> (OutOfBounds(op.chain, pre) \/ OutOfBounds(op.other, pre))
    /\ (/\ op.name = "apply_both"
        /\ DisjointPaths(TheLens, compose_lens(op.other))
        /\ ReadsOwnTarget(op.tx) /\ ReadsOwnTarget(op.other_tx)) =>
           /\ out.ab.kind = out.ba.kind
           /\ out.ab.kind = "ok" => out.ab.mem = out.ba.mem

C29_Witness ==
    /\ op.name = "set_both" /\ ty = "Struct4" /\ Len(pre.inner_vec) = 2
    /\ ChainPlace(op.chain) = <<FieldHop("inner_vec"), IndexHop(0), FieldHop("foo")>>
    /\ ChainPlace(op.other) = <<FieldHop("inner_vec"), IndexHop(1)>>
    /\ out.ab.kind = "ok" /\ out.ba.kind = "ok" /\ out.ab.mem = out.ba.mem
    /\ src.inner_vec[1].foo = op.arg /\ src.inner_vec[2] = op.other_arg
    /\ pre.inner_vec[1].foo # op.arg /\ pre.inner_vec[2] # op.other_arg

OtherNesting == IF op.nesting = "left" THEN "right" ELSE "left"

\* C30: compose(compose(a, b), c) and compose(a, compose(b, c)) have equal
\* paths and give, for every source and value, the same get_ref and get result
\* and the same set result: that of the hops of a, b and c taken in order.
C30_CompositionAssociative ==
    LET other == Nested(op.chain, OtherNesting) IN
    /\ op.name = "nested_path" =>
           /\ out = OkVal(path(other))
           /\ out.val.elements = [k \in 1..Len(op.chain) |-> [id |-> IdOf(op.chain[k])]]
    /\ op.name = "nested_get_ref" =>
           /\ out = Read(get_ref(other, pre, <<>>))
           /\ out.kind = "ok" => out.ref = ChainPlace(op.chain)
    /\ op.name = "nested_get" =>
           /\ out = get(other, pre, <<>>)
           /\ out.kind = "ok" => out.val = ValueAt(pre, ChainPlace(op.chain))
    /\ op.name = "nested_set" =>
           /\ out = set(other, pre, op.arg)
           /\ out.kind = "ok" => src = WriteAt(pre, ChainPlace(op.chain), op.arg)
           /\ out.kind # "ok" => src = pre /\ OutOfBounds(op.chain, pre)

C30_Witness ==
    /\ op.name = "nested_set" /\ op.nesting = "left" /\ ty = "Struct3"
    /\ op.chain[3].field = "bar" /\ out.kind = "ok"
    /\ pre.inner.inner.bar = 73 /\ src.inner.inner.bar = 116
    /\ src.inner.baz = pre.inner.baz /\ src.inner.inner.foo = pre.inner.inner.foo



====
